SPECIFICATION Spec
CONSTANT Repos <- FastApiRepos
INVARIANT PrefixesTracked
