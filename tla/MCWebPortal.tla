----------------------------- MODULE MCWebPortal -----------------------------
(***************************************************************************)
(* TLC instance of WebPortal: a public user and a staff member share a     *)
(* browser, two handlers may be under way, and two files can be picked.    *)
(***************************************************************************)
EXTENDS WebPortal

\* Bounds.  Rows of two people are mixed only before a file is picked, and staff
\* are hired in behaviours without files.
MixedApart == ~mixed \/ unpicked = Files
HiresApart ==
  unpicked = Files \/ (accounts \cup cards = {} /\ \A h \in Running : task[h].kind # "provision")

\* A handler's requests are answered or fail in the end: WebPortal's fairness.
MCSpec ==
  /\ WebInit /\ [][WebNext /\ MixedApart' /\ HiresApart']_webVars
  /\ \A h \in Handlers : WF_webVars(Settle(h))
=============================================================================
