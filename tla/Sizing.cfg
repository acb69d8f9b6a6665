\* Megabytes and seconds.  The file keeps four runs of a machine; two things go
\* wrong or change.
SPECIFICATION Spec
CONSTANTS
    Hosts = {"a", "b"}
    Guests = {"b"}
    Cases <- MCCases
    Path <- MCPath
    Blind = {"shell"}
    Floor <- MCFloor
    Wall <- MCWall
    Missed = 100
    Confs <- MCConfs
    Avail = 11000
    Shared = 2000
    CPUs = 8
    Shipped <- MCShipped
    Start <- MCStart
    CaseS = 400
    LongestUnitS = 40
    Keep = 4
    PeersWindow = 4
    Trouble = 2
 
INVARIANT GrowsOnEvidence
PROPERTY SavesItsOwn
PROPERTY AsksAgain
