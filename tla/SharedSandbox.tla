---------------------------- MODULE SharedSandbox ----------------------------
(***************************************************************************)
(* What the sandbox manager promises the rest of the driver: one shared    *)
(* Kata VM per allocation that is up as long as somebody uses it, is never *)
(* handed out once its last user has gone, and is then torn down.  There   *)
(* is no lock, no counter and no containerd here.                          *)
(***************************************************************************)
CONSTANTS Users,     \* the tasks that may use a sandbox
          Allocs,    \* the allocations
          AllocOf    \* the allocation of each user

VARIABLES users,     \* the tasks that hold a sandbox
          up         \* the allocations whose sandbox is registered

sandboxVars == <<users, up>>

UsersOf(a) == {c \in users : AllocOf[c] = a}

Init == users = {} /\ up = {}

\* Join a sandbox in use, or boot one where there is none; never an idle one
\* that is on its way out.
Acquire(c) ==
    /\ c \notin users
    /\ AllocOf[c] \in up => UsersOf(AllocOf[c]) # {}
    /\ users' = users \cup {c}
    /\ up' = up \cup {AllocOf[c]}

Release(c) ==
    /\ c \in users
    /\ users' = users \ {c}
    /\ UNCHANGED up

Teardown(a) ==
    /\ a \in up
    /\ UsersOf(a) = {}
    /\ up' = up \ {a}
    /\ UNCHANGED users

\* The driver process dies: everything it knew is gone.
Forget == users' = {} /\ up' = {}

Next ==
    \/ \E c \in Users : Acquire(c) \/ Release(c)
    \/ \E a \in Allocs : Teardown(a)
    \/ Forget

Safety == Init /\ [][Next]_sandboxVars

\* An idle sandbox is torn down.
Spec == Safety /\ \A a \in Allocs : WF_sandboxVars(Teardown(a))
=============================================================================
