SPECIFICATION Spec
CONSTANTS
  Calls = {u1, u2, u3}
  Deleter = u3
  Jobs <- MCJobs
  Seeds <- MCSeeds
  Texts <- MCTexts
  Filters <- MCFilters
  MaxObjects = 9
  None = None
INVARIANTS TypeOK UpdateConverges
PROPERTIES MembershipSpec RecursiveIsReached SearchIsComplete CreateIsUnique TombstoneNamed DeletesWhatItRead
