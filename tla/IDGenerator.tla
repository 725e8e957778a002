----------------------------- MODULE IDGenerator -----------------------------
(***************************************************************************)
(* GameServer's IDGenerator (IDGenerator.h): GenerateID searches a bitset  *)
(* from a rotating start, ReleaseID clears a bit, both under one mutex.    *)
(*                                                                         *)
(* All arithmetic is uint16_t, here modulo MAX_ID + 1.  The loop condition *)
(* i <= MAX_ID holds for every uint16_t i, so the loop has no exit but a   *)
(* free ID, and the throw behind it is no action of the model.  The static *)
(* generator of PlayerSession is not called yet; the callers are external. *)
(*                                                                         *)
(* Definitions commented "Variant" are no part of the model: each is an    *)
(* action with a plausible bug that a property is shown to catch.          *)
(***************************************************************************)
EXTENDS Integers, FiniteSets

CONSTANTS Callers,   \* threads that call the generator
          Nobody,    \* no thread
          MAX_ID,    \* IDGenerator::MAX_ID
          MaxLive    \* callers never want more IDs than this at a time

ASSUME NobodyAssumption == Nobody \notin Callers
ASSUME MaxAssumption == MAX_ID \in Nat /\ MaxLive \in Nat

VARIABLES
  usedIDs,           \* usedIDs, as the set of bits that are set
  currentID,         \* currentID
  mutex,             \* the thread that holds the mutex, or Nobody
  stage,             \* what each thread does
  offset,            \* GenerateID's loop variable
  held               \* the IDs each thread got and did not release

idVars == <<usedIDs, currentID, mutex, stage, offset, held>>

ID == 0..MAX_ID

\* The ID k places after the rotating start.
Candidate(k) == (currentID + k) % (MAX_ID + 1)

IDInit ==
  /\ usedIDs = {}
  /\ currentID = 0
  /\ mutex = Nobody
  /\ stage = [t \in Callers |-> "idle"]
  /\ offset = [t \in Callers |-> 0]
  /\ held = [t \in Callers |-> {}]

------------------------------------------------------------------------------
\* Call of GenerateID.
Call(t) ==
  /\ stage[t] = "idle"
  /\ Cardinality(usedIDs) + Cardinality({u \in Callers : stage[u] # "idle"}) < MaxLive
  /\ stage' = [stage EXCEPT ![t] = "lock"]
  /\ UNCHANGED <<usedIDs, currentID, mutex, offset, held>>

\* GenerateID takes the mutex and starts its loop.
Lock(t) ==
  /\ stage[t] = "lock"
  /\ mutex = Nobody
  /\ mutex' = t
  /\ stage' = [stage EXCEPT ![t] = "search"]
  /\ offset' = [offset EXCEPT ![t] = 0]
  /\ UNCHANGED <<usedIDs, currentID, held>>

\* Variant: one candidate in two is tried.
SkipTwo(t) ==
  /\ stage[t] = "search"
  /\ Candidate(offset[t]) \in usedIDs
  /\ offset' = [offset EXCEPT ![t] = (offset[t] + 2) % (MAX_ID + 1)]
  /\ UNCHANGED <<usedIDs, currentID, mutex, stage, held>>

\* One turn of the loop that finds the candidate used.
Skip(t) ==
  /\ stage[t] = "search"
  /\ Candidate(offset[t]) \in usedIDs
  /\ offset' = [offset EXCEPT ![t] = (offset[t] + 1) % (MAX_ID + 1)]
  /\ UNCHANGED <<usedIDs, currentID, mutex, stage, held>>

\* Variant: the bit is not set.
IssueUnmarked(t) ==
  /\ stage[t] = "search"
  /\ LET id == Candidate(offset[t]) IN
       /\ id \notin usedIDs
       /\ currentID' = (id + 1) % (MAX_ID + 1)
       /\ held' = [held EXCEPT ![t] = held[t] \cup {id}]
  /\ mutex' = Nobody
  /\ stage' = [stage EXCEPT ![t] = "idle"]
  /\ UNCHANGED <<usedIDs, offset>>

\* One turn of the loop that finds the candidate free and returns it.
Issue(t) ==
  /\ stage[t] = "search"
  /\ LET id == Candidate(offset[t]) IN
       /\ id \notin usedIDs
       /\ usedIDs' = usedIDs \cup {id}
       /\ currentID' = (id + 1) % (MAX_ID + 1)
       /\ held' = [held EXCEPT ![t] = held[t] \cup {id}]
  /\ mutex' = Nobody
  /\ stage' = [stage EXCEPT ![t] = "idle"]
  /\ UNCHANGED offset

\* ReleaseID, of an ID the thread holds.
ReleaseID(t, id) ==
  /\ stage[t] = "idle"
  /\ mutex = Nobody
  /\ id \in held[t]
  /\ usedIDs' = usedIDs \ {id}
  /\ held' = [held EXCEPT ![t] = held[t] \ {id}]
  /\ UNCHANGED <<currentID, mutex, stage, offset>>

Search(t) == Lock(t) \/ Skip(t) \/ Issue(t)

IDNext ==
  \E t \in Callers :
    \/ Call(t)
    \/ Search(t)
    \/ \E id \in ID : ReleaseID(t, id)

IDSpec == IDInit /\ [][IDNext]_idVars

\* Threads that are in GenerateID go on.  Nothing says that a thread waiting for
\* the mutex gets it ahead of the others.
FairIDSpec == IDSpec /\ \A t \in Callers : WF_idVars(Search(t))

------------------------------------------------------------------------------
(* Properties *)

\* Every variable keeps its type; the rotating start stays an ID although it is
\* computed as id + 1.
IDTypes ==
  /\ usedIDs \subseteq ID
  /\ currentID \in ID
  /\ mutex \in Callers \cup {Nobody}
  /\ stage \in [Callers -> {"idle", "lock", "search"}]
  /\ offset \in [Callers -> ID]
  /\ held \in [Callers -> SUBSET ID]

\* No two threads hold one ID, and the bits are set for exactly the IDs held.
OneHolder ==
  /\ \A t, u \in Callers : t # u => held[t] \cap held[u] = {}
  /\ usedIDs = UNION {held[t] : t \in Callers}

\* The IDs handed out rotate: when one is handed out, every ID between the
\* start of the search and it is in use, so a released ID is not used again
\* before the others were.
InRotation ==
  [][\A t \in Callers : held[t] \subseteq held'[t] =>
       \A id \in held'[t] \ held[t] :
         \A k \in 0..MAX_ID :
           (\A n \in 0..k : Candidate(n) # id) => Candidate(k) \in usedIDs]_idVars

\* A call of GenerateID that has the mutex ends and gives it back: the search
\* comes to a free ID, unless every ID is in use.  For that case the code has a
\* comment and a throw, but the loop before it does not end.
GenerateEnds == \A t \in Callers : (mutex = t) ~> (mutex # t \/ usedIDs = ID)
==============================================================================
