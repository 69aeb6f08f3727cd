--------------------------- MODULE PolicyDecision ---------------------------
(***************************************************************************)
(* The abstract specification of opkssh verify.  A request looks at the    *)
(* files the rule depends on, at any moments between its beginning and its *)
(* end and in any order, while the administrator keeps replacing them; its *)
(* verdict is the rule applied to what it saw.  In particular the verdict  *)
(* never rests on a version of a file that was replaced before the request *)
(* began, and never on anything but those looks.  The specification is     *)
(* parameterised by the rule, AccessRule.tla, and the files it reads.      *)
(***************************************************************************)
CONSTANTS Files,        \* the files a decision depends on
          Looks,        \* the system calls that look at them
          FileOf(_),    \* the file each look is at
          Authorized(_, _, _),  \* the rule: AccessRule.tla
          Starts,       \* the situations a request may be made in: <<world, req>>
          Versions,     \* [Files -> the versions an administrator may install]
          Sudo          \* opksshuser may run "sudo -n opkssh readhome"

VARIABLES world,        \* [Files -> the current version]
          req,          \* the request, once there is one
          view,         \* [Looks -> the version that look saw]
          verdict       \* "none", "pending", "granted" or "refused"

vars == <<world, req, view, verdict>>

\* Every look sees the version that is current now.
ViewOf(w) == [look \in Looks |-> w[FileOf(look)]]

Init ==
    /\ <<world, req>> \in Starts
    /\ view = ViewOf(world)
    /\ verdict = "none"

Edit ==
    /\ \E f \in Files : \E v \in Versions[f] :
            world' = [world EXCEPT ![f] = v]
    /\ UNCHANGED <<req, view, verdict>>

Begin ==
    /\ verdict = "none"
    /\ verdict' = "pending"
    /\ view' = ViewOf(world)
    /\ UNCHANGED <<world, req>>

\* Look at one file, or at none.
MayLook ==
    \/ UNCHANGED view
    \/ \E look \in Looks : view' = [view EXCEPT ![look] = world[FileOf(look)]]

Look ==
    /\ verdict = "pending"
    /\ MayLook
    /\ UNCHANGED <<world, req, verdict>>

Decide ==
    /\ verdict = "pending"
    /\ MayLook
    /\ verdict' = IF Authorized(view', req, Sudo) THEN "granted" ELSE "refused"
    /\ UNCHANGED <<world, req>>

Next == Edit \/ Begin \/ Look \/ Decide

Spec == Init /\ [][Next]_vars
=============================================================================
