----------------------------- MODULE AbsRegistry -----------------------------
(***************************************************************************)
(* What the shared memory manager promises its clients: a registry of      *)
(* reference counts by name, on which every call of every process takes    *)
(* effect at one moment between its start and its return.                  *)
(***************************************************************************)
EXTENDS Integers

CONSTANTS Procs, Names

VARIABLES
  reg,    \* reg[n]: the references to the region named n, 0 when there is none
  state   \* state[p]: "idle", or the call of p and how far it is

Idle == [kind |-> "idle"]
Pending(kind, n) == [kind |-> kind, name |-> n, result |-> "pending"]

Init ==
  /\ reg = [n \in Names |-> 0]
  /\ state = [p \in Procs |-> Idle]

Start(p, kind, n) ==
  /\ state[p] = Idle
  /\ state' = [state EXCEPT ![p] = Pending(kind, n)]
  /\ UNCHANGED reg

\* The call takes effect: k is the new count of its name.
Succeed(p, kind, n, k) ==
  /\ state[p] = Pending(kind, n)
  /\ reg' = [reg EXCEPT ![n] = k]
  /\ state' = [state EXCEPT ![p].result = "ok"]

Alloc(p, n) == reg[n] = 0 /\ Succeed(p, "alloc", n, 1)
Attach(p, n) == reg[n] > 0 /\ Succeed(p, "attach", n, reg[n] + 1)
Release(p, n) == reg[n] > 0 /\ Succeed(p, "release", n, reg[n] - 1)

\* Only e_shm_alloc fails for a reason other than the name, for want of memory
\* or of a region.
Fail(p, kind, n) ==
  /\ state[p] = Pending(kind, n)
  /\ kind # "alloc" => reg[n] = 0
  /\ state' = [state EXCEPT ![p].result = "fail"]
  /\ UNCHANGED reg

\* The memory cannot be mapped: the call fails before it looks at the registry.
Unavailable(p, kind, n) ==
  /\ state[p] = Pending(kind, n)
  /\ state' = [state EXCEPT ![p] = Idle]
  /\ UNCHANGED reg

Return(p) ==
  /\ state[p] # Idle
  /\ state[p].result # "pending"
  /\ state' = [state EXCEPT ![p] = Idle]
  /\ UNCHANGED reg

Next ==
  \E p \in Procs :
    \/ \E n \in Names : Alloc(p, n) \/ Attach(p, n) \/ Release(p, n)
    \/ \E kind \in {"alloc", "attach", "release"}, n \in Names :
         Start(p, kind, n) \/ Fail(p, kind, n) \/ Unavailable(p, kind, n)
    \/ Return(p)

Spec == Init /\ [][Next]_<<reg, state>>
=============================================================================
