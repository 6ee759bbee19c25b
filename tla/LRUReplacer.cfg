\* Five frames: every order in which up to five frames can be evictable.
CONSTANT Frame = {f1, f2, f3, f4, f5}
SPECIFICATION Spec
INVARIANT ListMatchesHash
PROPERTY ImplementsPolicy
