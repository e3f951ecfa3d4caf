------------------------------ MODULE Footprint ------------------------------
(***************************************************************************)
(* What every probe that changes a target promises: what it put there is   *)
(* taken away again, or named in the report.  It may lose track of a thing *)
(* only after a reply that did not say what became of it.                  *)
(***************************************************************************)
VARIABLES
  held,     \* on the target, and the scan still has it in hand
  left,     \* the scan is through with it, and it may still be there
  named,    \* what the report names
  excuses   \* replies that did not say what they had to

vars == <<held, left, named, excuses>>

Init == held = {} /\ left = {} /\ named = {}

Create == held \subseteq held' /\ UNCHANGED <<left, named>>

Remove == held' \subseteq held /\ UNCHANGED <<left, named>>

\* What is given up is named, whether or not it is gone by now.
Leave == LET S == held \ held'
         IN  /\ held' \subseteq held
             /\ left \subseteq left' /\ left' \subseteq left \cup S
             /\ named' = named \cup S

\* Something stays behind that the scan does not know of.
Forget == /\ excuses' # {}
          /\ held' \subseteq held
          /\ left \subseteq left'
          /\ UNCHANGED named

Next ==
  /\ excuses \subseteq excuses'
  /\ Create \/ Remove \/ Leave \/ Forget

Spec == Init /\ [][Next]_vars
-----------------------------------------------------------------------------
\* What is left behind is named, as long as every reply said what it had to.
NothingIsForgotten == excuses = {} => left \subseteq named
===============================================================================
