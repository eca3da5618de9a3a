\* Two readers, a writer and the script over two users; three writes cover
\* enrol, delete and enrol again during one scan.  Scores below, at and above
\* the threshold, with leads below and at the margin.
CONSTANTS
    ann = ann  bob = bob  t1 = t1  t2 = t2  w1 = w1
    NoTask = NoTask  NoUser = NoUser
    User <- MCUsers
    Task <- MCTasks
    Writer = {w1}
    MaxWrites = 3
    MaxFails = 1
    MaxScore = 2
    Threshold = 1
    Margin = 1
    SearchFrom = 1
    MaxLimit = 2
SPECIFICATION FairSpec
INVARIANTS TypeOK StaleOnlyIfMissed NamesExactlyTheClear SearchFindsBest
PROPERTIES NeverOlder RefreshReturns
