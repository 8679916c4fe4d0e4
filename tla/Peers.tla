------------------------------- MODULE Peers --------------------------------
(***************************************************************************)
(* The peer table of a node and the file that remembers it: manual_peers   *)
(* and peers.txt, in crates/zentrad/src/p2p_sync.rs, rpc.rs and main.rs.   *)
(*                                                                         *)
(* Handshakes and address messages add peers, the RPCs add_peer and        *)
(* remove_peer change the table, and three places write the file: both     *)
(* RPCs and, every six seconds, the dialer.  Each writes a copy it took    *)
(* earlier, and std::fs::write empties the file before it fills it, so     *)
(* writers overtake each other and a crash may find the file empty.        *)
(***************************************************************************)
EXTENDS Naturals, FiniteSets, FiniteSetsExt

CONSTANTS
  Addresses,      \* host:port strings
  Loopback,       \* those that begin with 127.0.0.1
  Seeds,          \* DEFAULT_SEED_PEERS and the --connect flags
  MAX_PEERS,      \* cap of the table for what peers tell (256)
  MAX_TOLD,       \* addresses taken from one message (50)
  RpcCalls,       \* threads of add_peer and remove_peer
  MaxChanges,     \* bound: changes of the table
  MaxRestarts     \* bound: restarts

ASSUME PeersAssumption ==
  /\ Loopback \subseteq Addresses /\ Seeds \subseteq Addresses
  /\ MAX_PEERS \in Nat /\ MAX_TOLD \in Nat
  /\ MaxChanges \in Nat /\ MaxRestarts \in Nat
  /\ "dialer" \notin RpcCalls

Writers == RpcCalls \cup {"dialer"}

VARIABLES
  table,          \* manual_peers
  file,           \* the addresses in peers.txt
  at,             \* where each writer is: idle, copy, write, fill
  copy,           \* its copy of the table
  changes, restarts

peersVars == <<table, file, at, copy, changes, restarts>>

\* What the dialer writes: everything but the loopback entries.
Savable(peers) == peers \ Loopback

----------------------------------------------------------------------------
(* What peers tell.                                                        *)

\* Addresses that are not known yet enter while there is room; which of them
\* do, when there is not room for all, depends on their order.
Merged(told, most) ==
  LET fresh == told \ table
      room  == IF Cardinality(table) < MAX_PEERS THEN MAX_PEERS - Cardinality(table) ELSE 0
      n     == Min({Cardinality(fresh), most, room})
  IN  {table \cup s : s \in kSubset(n, fresh)}

Change(new) ==
  /\ changes < MaxChanges
  /\ changes' = changes + 1
  /\ table' = new

\* The hello of a dialer names its own port, and the peers it knows; so does
\* the answer to our own hello.
LearnFromHello(told) ==
  /\ \E new \in Merged(told, Cardinality(told)) : new # table /\ Change(new)
  /\ UNCHANGED <<file, at, copy, restarts>>

\* "addrs" of handle_inbound: at most MAX_TOLD at a time.
LearnFromAddrs(told) ==
  /\ \E new \in Merged(told, MAX_TOLD) : new # table /\ Change(new)
  /\ UNCHANGED <<file, at, copy, restarts>>

----------------------------------------------------------------------------
(* The RPCs: the table changes under its lock, which is then released.     *)

\* add_peer does not look at MAX_PEERS.
AddPeer(r, a) ==
  /\ at[r] = "idle"
  /\ Change(table \cup {a})
  /\ at' = [at EXCEPT ![r] = "copy"]
  /\ UNCHANGED <<file, copy, restarts>>

RemovePeer(r, a) ==
  /\ at[r] = "idle"
  /\ Change(table \ {a})
  /\ at' = [at EXCEPT ![r] = "copy"]
  /\ UNCHANGED <<file, copy, restarts>>

CopyTable(r) ==
  /\ at[r] = "copy"
  /\ copy' = [copy EXCEPT ![r] = table]
  /\ at' = [at EXCEPT ![r] = "write"]
  /\ UNCHANGED <<table, file, changes, restarts>>

----------------------------------------------------------------------------
(* The dialer.                                                             *)

\* A faulty variant: the file is written only when there is none.
DialOnce ==
  /\ at["dialer"] = "idle"
  /\ copy' = [copy EXCEPT !["dialer"] = Savable(table)]
  /\ at' = [at EXCEPT !["dialer"] = IF file = {} THEN "write" ELSE "idle"]
  /\ UNCHANGED <<table, file, changes, restarts>>

\* One cycle: with nothing to save the file stays as it is.
Dial ==
  /\ at["dialer"] = "idle"
  /\ copy' = [copy EXCEPT !["dialer"] = Savable(table)]
  /\ at' = [at EXCEPT !["dialer"] = IF Savable(table) = {} THEN "idle" ELSE "write"]
  /\ UNCHANGED <<table, file, changes, restarts>>

----------------------------------------------------------------------------
(* std::fs::write                                                          *)

Truncate(w) ==
  /\ at[w] = "write"
  /\ file' = {}
  /\ at' = [at EXCEPT ![w] = "fill"]
  /\ UNCHANGED <<table, copy, changes, restarts>>

\* Two writers that both emptied the file both write from its beginning: of a
\* longer text below, the tail remains.  A line that is cut is left out here.
Fill(w) ==
  /\ at[w] = "fill"
  /\ \E tail \in SUBSET file : file' = copy[w] \cup tail
  /\ at' = [at EXCEPT ![w] = "idle"]
  /\ copy' = [copy EXCEPT ![w] = {}]
  /\ UNCHANGED <<table, changes, restarts>>

\* The process ends anywhere and is started again: main loads the seeds, the
\* file and the flags.
Restart ==
  /\ restarts < MaxRestarts
  /\ restarts' = restarts + 1
  /\ table' = Seeds \cup file
  /\ at' = [w \in Writers |-> "idle"]
  /\ copy' = [w \in Writers |-> {}]
  /\ UNCHANGED <<file, changes>>

----------------------------------------------------------------------------

\* The first start, or a later one with a file that names the seeds.
PeersInit ==
  /\ table = Seeds /\ file \in {{}, Savable(Seeds)}
  /\ at = [w \in Writers |-> "idle"]
  /\ copy = [w \in Writers |-> {}]
  /\ changes = 0 /\ restarts = 0

PeersNext ==
  \/ \E told \in SUBSET Addresses : LearnFromHello(told) \/ LearnFromAddrs(told)
  \/ \E r \in RpcCalls :
       \/ \E a \in Addresses : AddPeer(r, a) \/ RemovePeer(r, a)
       \/ CopyTable(r)
  \/ Dial
  \/ \E w \in Writers : Truncate(w) \/ Fill(w)
  \/ Restart

----------------------------------------------------------------------------

\* "Discovered peers are remembered across restarts": when the table no longer
\* changes, the file comes to hold exactly what is worth saving of it, however
\* the writers overtook each other and wherever a crash found the file; unless
\* there is nothing to save, when the dialer leaves the file alone.  The dialer
\* goes round every six seconds, and a call that has begun ends.
FileCatchesUp ==
  <>[](Savable(table) # {} => at["dialer"] = "fill" \/ Savable(file) = Savable(table))
=============================================================================
