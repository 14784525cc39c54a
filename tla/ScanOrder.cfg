SPECIFICATION Spec
CONSTANT Repos <- DjangoRepos
INVARIANT RootsFirst
