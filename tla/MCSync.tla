------------------------------- MODULE MCSync -------------------------------
(***************************************************************************)
(* Two nodes that synchronize, and one that keeps its peer table, for TLC. *)
(* They have no state in common: a behaviour moves the one that `focus`    *)
(* names.                                                                  *)
(***************************************************************************)
EXTENDS Sync, Peers

CONSTANT Focuses

VARIABLE focus

vars == <<focus, syncVars, peersVars>>

\* Each dials the other.
BothDial == {<<"a", "b">>, <<"b", "a">>}

\* The peer is a public node that the other, behind its router, dials.
OneDials == {<<"a", "b">>}

Init ==
  /\ focus \in Focuses
  /\ SyncInit /\ PeersInit
  /\ focus # "peers" => file = Savable(Seeds)

InSync == focus = "sync" /\ UNCHANGED <<focus, peersVars>>
InPeers == focus = "peers" /\ UNCHANGED <<focus, syncVars>>

Next ==
  \/ InSync /\ SyncNext
  \/ InPeers /\ PeersNext

\* start_dialer begins a session every six seconds, and every wait of a
\* session has a deadline: a session that is not cut off goes on.  Nothing is
\* assumed of the announcements, nor of the workers.
Sessions(c) == InSync /\ Session(c)

\* The dialer also writes the file in each of its rounds, and a call that has
\* begun ends.
Rounds(w) ==
  InPeers /\ (CopyTable(w) \/ (w = "dialer" /\ Dial) \/ Truncate(w) \/ Fill(w))

Spec ==
  /\ Init /\ [][Next]_vars
  /\ \A c \in Dials : WF_vars(Sessions(c))
  /\ \A w \in Writers : WF_vars(Rounds(w))
=============================================================================
