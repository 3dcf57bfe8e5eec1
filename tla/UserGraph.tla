----------------------------- MODULE UserGraph -----------------------------
(* The user nodes of the graph database and their index (core/neo4j.scala,    *)
(* core/user.scala), as the fixtures fill them (core/src/test/.../            *)
(* neo4jsupport.scala): each makes sure that there is a root user.  The       *)
(* fixtures are `synchronized`, but each on itself: several run at the same   *)
(* time, on a store that outlives them.                                       *)
EXTENDS Naturals, FiniteSets

CONSTANTS
    Fixtures,      \* the runs of neo4jFixtures; each creates at most one node
    Nobody

ASSUME NobodyAssumption == Nobody \notin Fixtures

VARIABLES
    step,          \* how far each fixture is
    put,           \* what its transaction has put into the index so far
    holder,        \* whose transaction holds the lock of each key of the root user
    entry          \* the index: the nodes under each key, named by their creators

userGraphVars == <<step, put, holder, entry>>

Keys == {"id", "username"}

UserGraphInit ==
    /\ step = [f \in Fixtures |-> "begin"]
    /\ put = [f \in Fixtures |-> {}]
    /\ holder = [key \in Keys |-> Nobody]
    /\ entry = [key \in Keys |-> {}]

-----------------------------------------------------------------------------
(* find: a user is found only if there is one hit, not if there are several.  *)
Find(key) == IF Cardinality(entry[key]) = 1 THEN entry[key] ELSE {}

\* What withTransaction's finish does: the locks are released, and the
\* entries are there at once if it was a success, and never if not.
Locks(f) == [key \in Keys |-> IF holder[key] = f THEN Nobody ELSE holder[key]]
Entries(f) == [key \in Keys |-> IF key \in put[f] THEN entry[key] \cup {f} ELSE entry[key]]

Goto(f, s) == step' = [step EXCEPT ![f] = s]

(* ensureUserSanity looks for the root user, outside of a transaction, and    *)
(* adds one if it is not found.                                               *)
LookForRoot(f) ==
    /\ step[f] = "begin"
    /\ Goto(f, IF Find("username") = {} THEN "createNode" ELSE "done")
    /\ UNCHANGED <<put, holder, entry>>

\* The node that addOneWithIndex creates is seen through the index only.
CreateNode(f) ==
    /\ step[f] = "createNode"
    /\ Goto(f, "putId")
    /\ UNCHANGED <<put, holder, entry>>

(* putIfAbsent (Neo4j's): nothing if there is an entry already, committed or  *)
(* of this transaction; otherwise an entry, with a lock that keeps others off *)
(* this key until the transaction is finished.                                *)
PutIfAbsent(f, key) ==
    IF entry[key] # {} \/ key \in put[f]
    THEN UNCHANGED <<put, holder, entry>>
    ELSE /\ holder[key] \in {Nobody, f}
         /\ holder' = [holder EXCEPT ![key] = f]
         /\ put' = [put EXCEPT ![f] = @ \cup {key}]
         /\ UNCHANGED entry

\* Mutant of PutId: the entry is put whether or not there is one.
PutIdAnyway(f) ==
    /\ step[f] = "putId"
    /\ holder["id"] \in {Nobody, f}
    /\ holder' = [holder EXCEPT !["id"] = f]
    /\ put' = [put EXCEPT ![f] = @ \cup {"id"}]
    /\ Goto(f, "putUsername")
    /\ UNCHANGED entry

(* addOneWithIndex puts the id; the fixture's indexOperation then puts the    *)
(* name, and the id once more.                                                *)
PutId(f) ==
    /\ step[f] = "putId"
    /\ PutIfAbsent(f, "id")
    /\ Goto(f, "putUsername")

PutUsername(f) ==
    /\ step[f] = "putUsername"
    /\ PutIfAbsent(f, "username")
    /\ Goto(f, "putIdAgain")

PutIdAgain(f) ==
    /\ step[f] = "putIdAgain"
    /\ PutIfAbsent(f, "id")
    /\ Goto(f, "commit")

EndTransaction(f, s, entries) ==
    /\ Goto(f, s)
    /\ entry' = entries
    /\ holder' = Locks(f)
    /\ put' = [put EXCEPT ![f] = {}]

Commit(f) ==
    /\ step[f] = "commit"
    /\ EndTransaction(f, "done", Entries(f))

(* Whatever throws in the transaction, and the end of the process in it.      *)
Rollback(f) ==
    /\ step[f] \in {"createNode", "putId", "putUsername", "putIdAgain", "commit"}
    /\ EndTransaction(f, "failed", entry)

UserGraphNext ==
    \E f \in Fixtures :
        \/ LookForRoot(f) \/ CreateNode(f) \/ PutId(f) \/ PutUsername(f) \/ PutIdAgain(f)
        \/ Commit(f) \/ Rollback(f)

UserGraphSpec == UserGraphInit /\ [][UserGraphNext]_userGraphVars

-----------------------------------------------------------------------------
UserGraphTypeOK ==
    /\ step \in [Fixtures -> {"begin", "createNode", "putId", "putUsername", "putIdAgain",
                              "commit", "done", "failed"}]
    /\ put \in [Fixtures -> SUBSET Keys]
    /\ holder \in [Keys -> Fixtures \cup {Nobody}]
    /\ entry \in [Keys -> SUBSET Fixtures]

(* The user that FirstLogin finds by name is the one that TokenCheck finds by *)
(* id (login.scala:167, 202), and there is never a second hit, which would    *)
(* hide both (neo4j.scala:130): although the fixtures look before they put,   *)
(* and outside of the transaction they put in.  A fixture that is done has    *)
(* left a root user that is found.                                            *)
OneRootUser ==
    /\ entry["id"] = entry["username"]
    /\ Cardinality(entry["id"]) <= 1
    /\ \A f \in Fixtures : step[f] = "done" => Find("username") # {}
=============================================================================
