-------------------------- MODULE ReferenceCounting --------------------------
(***************************************************************************)
(* What reference counting promises: an object lives as long as someone    *)
(* holds a reference to it, and is destroyed, once, after the last one has *)
(* been given back.  References are named by those who hold them.          *)
(***************************************************************************)
EXTENDS FiniteSets

CONSTANTS Object, Owner

VARIABLES owners,   \* owners[x]: those who hold a reference to x
          life      \* "none", then "live", then "dead"

vars == <<owners, life>>

Init == /\ owners = [x \in Object |-> {}]
        /\ life = [x \in Object |-> "none"]

Create(x, o) == /\ life[x] = "none"
                /\ life' = [life EXCEPT ![x] = "live"]
                /\ owners' = [owners EXCEPT ![x] = {o}]

\* A reference is copied from one that is held, never from nothing.
Acquire(x, o) == /\ owners[x] # {} /\ o \notin owners[x]
                 /\ owners' = [owners EXCEPT ![x] = @ \cup {o}]
                 /\ UNCHANGED life

Drop(x, o) == /\ o \in owners[x]
              /\ owners' = [owners EXCEPT ![x] = @ \ {o}]
              /\ UNCHANGED life

Destroy(x) == /\ life[x] = "live" /\ owners[x] = {}
              /\ life' = [life EXCEPT ![x] = "dead"]
              /\ UNCHANGED owners

Next == \E x \in Object :
          \/ \E o \in Owner : Create(x, o) \/ Acquire(x, o) \/ Drop(x, o)
          \/ Destroy(x)

Spec == Init /\ [][Next]_vars /\ \A x \in Object : WF_vars(Destroy(x))
==============================================================================
