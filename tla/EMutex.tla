------------------------------- MODULE EMutex -------------------------------
(***************************************************************************)
(* The mutex of e-lib: one word in the memory of a home core, taken with   *)
(* the atomic testset instruction and given back with a plain store of 0.  *)
(* testset stores the core id of the caller if the word is 0 and returns   *)
(* the old value in every case.  The store of e_mutex_unlock is posted on  *)
(* the mesh: e_mutex_unlock returns before the word changes.               *)
(***************************************************************************)
EXTENDS Naturals

CONSTANTS
  Cores,    \* the cores that use the mutex
  CoreId    \* CoreId[c]: what e_get_coreid returns on c

\* No core of the supported chips has id 0: their first core is (32, 8).
ASSUME CoreIdAssumption ==
  /\ CoreId \in [Cores -> Nat \ {0}]
  /\ \A c, d \in Cores : CoreId[c] = CoreId[d] => c = d

VARIABLES
  word,     \* the mutex word
  clears,   \* clears[c]: stores of 0 by c still in the mesh
  pc        \* pc[c]: where core c is

vars == <<word, clears, pc>>

\* The word is statically zero; every core begins with e_mutex_init.
Init ==
  /\ word   = 0
  /\ clears = [c \in Cores |-> 0]
  /\ pc     = [c \in Cores |-> "start"]

\* e_mutex_init is a no-op.
MutexInit(c) ==
  /\ pc[c] = "start"
  /\ pc' = [pc EXCEPT ![c] = "idle"]
  /\ UNCHANGED <<word, clears>>

\* The testset of e_mutex_lock and e_mutex_trylock: where the core goes when
\* the word was 0, and where when it was not.
Testset(c, won, lost) ==
  /\ word' = IF word = 0 THEN CoreId[c] ELSE word
  /\ pc' = [pc EXCEPT ![c] = IF word = 0 THEN won ELSE lost]
  /\ UNCHANGED clears

\* A core calls e_mutex_lock.
Lock(c) ==
  /\ pc[c] = "idle"
  /\ pc' = [pc EXCEPT ![c] = "locking"]
  /\ UNCHANGED <<word, clears>>

\* Mutant: the loop ends when the old value is the core's own id.
LockLoopReentrant(c) ==
  /\ pc[c] = "locking"
  /\ word' = IF word = 0 THEN CoreId[c] ELSE word
  /\ pc' = [pc EXCEPT ![c] =
              IF word \in {0, CoreId[c]} THEN "critical" ELSE "locking"]
  /\ UNCHANGED clears

\* One iteration of its do-while loop.
LockLoop(c) ==
  /\ pc[c] = "locking"
  /\ Testset(c, "critical", "locking")

\* e_mutex_trylock: one testset, the caller looks at the old value.
Trylock(c) ==
  /\ pc[c] = "idle"
  /\ Testset(c, "critical", "idle")

\* Mutant: e_mutex_unlock forgets the store.
UnlockNoStore(c) ==
  /\ pc[c] = "critical"
  /\ pc' = [pc EXCEPT ![c] = "idle"]
  /\ UNCHANGED <<word, clears>>

\* e_mutex_unlock: the store of 0 is posted.
Unlock(c) ==
  /\ pc[c] = "critical"
  /\ pc' = [pc EXCEPT ![c] = "idle"]
  /\ clears' = [clears EXCEPT ![c] = @ + 1]
  /\ UNCHANGED word

\* The mesh delivers the store of an unlock.
DeliverClear(c) ==
  /\ clears[c] > 0
  /\ clears' = [clears EXCEPT ![c] = @ - 1]
  /\ word' = 0
  /\ UNCHANGED pc

Next ==
  \E c \in Cores :
    \/ MutexInit(c) \/ Lock(c) \/ LockLoop(c) \/ Trylock(c) \/ Unlock(c)
    \/ DeliverClear(c)

(***************************************************************************)
(* A core in the loop of e_mutex_lock keeps trying, a critical section     *)
(* ends, and the mesh delivers.  A core need not ask for the mutex.        *)
(***************************************************************************)
Fairness ==
  \A c \in Cores :
    WF_vars(LockLoop(c)) /\ WF_vars(Unlock(c)) /\ WF_vars(DeliverClear(c))

Spec == Init /\ [][Next]_vars
FairSpec == Spec /\ Fairness

-----------------------------------------------------------------------------
\* Every variable holds a value of its type; the word is 0 or a core id.
TypeOK ==
  /\ word \in {0} \cup {CoreId[c] : c \in Cores}
  /\ clears \in [Cores -> {0, 1}]
  /\ pc \in [Cores -> {"start", "idle", "locking", "critical"}]

\* At most one core is between a successful e_mutex_lock or e_mutex_trylock
\* and its e_mutex_unlock.
MutualExclusion ==
  \A c, d \in Cores : pc[c] = "critical" /\ pc[d] = "critical" => c = d

\* The store of an unlock takes effect on the mutex of the core that unlocked:
\* however late it arrives, it never frees the mutex under another holder.
ClearsOwnLock ==
  [][\A c \in Cores : DeliverClear(c) =>
       word = CoreId[c] /\ \A d \in Cores : pc[d] # "critical"]_vars

\* As long as some core is in e_mutex_lock, the mutex is taken again and again:
\* a lost or misdirected unlock would leave all cores spinning.
SomeoneEnters ==
  (\E c \in Cores : pc[c] = "locking") ~> (\E c \in Cores : pc[c] = "critical")
=============================================================================
