------------------------------ MODULE MCInbox -------------------------------
(* Instances of Inbox for TLC. *)
EXTENDS Inbox, TLC

\* Callers are interchangeable, and so are tracking ids and urls; used by runs
\* that check safety only.
InboxSymmetry == Permutations(Callers) \cup Permutations(Tids) \cup Permutations(Urls)
=============================================================================
