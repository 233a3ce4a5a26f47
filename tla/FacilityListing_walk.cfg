SPECIFICATION Spec
CONSTANTS
  sports = sports  park = park  Nothing = Nothing
  Facilities = {1, 2, 3}  Types = {sports, park}
  Names = {1, 2}  Distances = {1, 2}
  Hits = {2}  Mentions = {1}
  Queries <- AllQueries  PageSizes = {1, 2}  MaxWrites = 1
INVARIANTS TypeOK NoRepeat NothingSkipped ListedIsFound
CHECK_DEADLOCK FALSE
