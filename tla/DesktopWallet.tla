---------------------------- MODULE DesktopWallet ---------------------------
(***************************************************************************)
(* The graphical wallet of crates/zentra-qt/src/main.rs: its seed, in      *)
(* memory and in two files, the address derived from it by background      *)
(* threads through a third file, the node it starts and stops, and its own *)
(* update.  Every frame runs `update`; buttons act within a frame.         *)
(*                                                                         *)
(* A seed stands for its address too.  A file is what it holds, or         *)
(* NoSeed; reading one that was encrypted gives the seed back to who has   *)
(* the password (encrypt_seed, decrypt_seed).                              *)
(***************************************************************************)
EXTENDS Integers

CONSTANTS
  Seeds,       \* phrases of 24 words that are valid
  BadPhrase,   \* 24 words that are not: deriveAddress refuses them
  NoSeed,      \* no file, empty string
  Remote,      \* using_remote_node()
  MaxLaunches, MaxFailures

ASSUME WalletAssumption ==
  /\ BadPhrase \notin Seeds /\ NoSeed \notin Seeds \cup {BadPhrase}
  /\ Remote \in BOOLEAN

VARIABLES
  txt, enc, tmp,   \* wallet_mnemonic.txt, wallet_mnemonic.enc, derived_address.tmp
  running,         \* the process
  mnemonic, address, sealed, encrypted,
  shared,          \* NodeState.wallet_address
  derivers,        \* seeds whose derivation threads are at work
  busy,            \* the file the encrypt dialog has yet to remove
  node,            \* who started the local node: "wallet", "user", or NoSeed
  child,           \* the wallet holds the handle of the node
  failures, connected,
  update,          \* the self-update: status
  drawn,           \* seeds generated so far
  launches

wFiles == <<txt, enc, tmp>>
wMemory == <<mnemonic, address, sealed, encrypted>>
wNode == <<node, child, failures, connected>>
wRest == <<drawn, launches>>
walletVars == <<wFiles, running, wMemory, shared, derivers, busy, wNode, update, wRest>>

WalletInit ==
  /\ txt = NoSeed /\ enc = NoSeed /\ tmp = NoSeed
  /\ running = FALSE
  /\ mnemonic = NoSeed /\ address = NoSeed /\ sealed = FALSE /\ encrypted = FALSE
  /\ shared = NoSeed /\ derivers = {} /\ busy = NoSeed
  /\ node \in {NoSeed, "user"} /\ child = FALSE
  /\ failures = 0 /\ connected = FALSE
  /\ update = "none" /\ drawn = {} /\ launches = 0

----------------------------------------------------------------------------
(* The process and the node                                                *)

\* spawn_daemon: only where nothing answers yet.
Spawned(n) == IF ~Remote /\ n = NoSeed THEN "wallet" ELSE n
IsChild(n) == ~Remote /\ n = NoSeed

\* ZentraApp::new: a leftover address is taken as the seed's.
Launch ==
  /\ ~running /\ launches < MaxLaunches
  /\ running' = TRUE /\ launches' = launches + 1
  /\ node' = Spawned(node) /\ child' = IsChild(node)
  /\ encrypted' = (enc # NoSeed) /\ sealed' = (enc # NoSeed)
  /\ mnemonic' = IF enc = NoSeed THEN txt ELSE NoSeed
  /\ address' = IF mnemonic' # NoSeed THEN tmp ELSE NoSeed
  /\ shared' = address'
  /\ derivers' = IF mnemonic' \in Seeds THEN {mnemonic'} ELSE {}
  /\ failures' = 0 /\ connected' = FALSE /\ update' = "none" /\ busy' = NoSeed
  /\ UNCHANGED <<wFiles, drawn>>

\* kill_daemon: stopNode goes to whatever node listens on the local port; one
\* the user started stays only where it has another token.
AfterKill(n) == IF Remote THEN {n} ELSE {NoSeed} \cup ({n} \ {"wallet"})

\* The threads end with the process, at any point of what they do.
Ends ==
  /\ running' = FALSE /\ derivers' = {} /\ busy' = NoSeed
  /\ mnemonic' = NoSeed /\ address' = NoSeed /\ shared' = NoSeed
  /\ sealed' = FALSE /\ encrypted' = FALSE
  /\ child' = FALSE /\ failures' = 0 /\ connected' = FALSE /\ update' = "none"
  /\ UNCHANGED <<wFiles, wRest>>

\* What the thread of the user interface does: not while it is in a dialog.
AtWork == running /\ busy = NoSeed

Exit == AtWork /\ Ends /\ node' \in AfterKill(node)
Crash == running /\ Ends /\ UNCHANGED node

\* The user starts or stops a node of their own; a child may die.
UserNode ==
  /\ node = NoSeed /\ node' = "user"
  /\ UNCHANGED <<wFiles, running, wMemory, shared, derivers, busy, child, failures,
                 connected, update, wRest>>
NodeDies ==
  /\ node # NoSeed /\ node' = NoSeed
  /\ UNCHANGED <<wFiles, running, wMemory, shared, derivers, busy, child, failures,
                 connected, update, wRest>>

Answers == node # NoSeed \/ Remote

\* "Start Mining" starts a node again when the wallet holds none.
StartNode ==
  /\ AtWork /\ address # NoSeed /\ ~sealed /\ ~child
  /\ node' = Spawned(node) /\ child' = IsChild(node)
  /\ child' # child
  /\ UNCHANGED <<wFiles, running, wMemory, shared, derivers, busy, failures, connected,
                 update, wRest>>

\* poll_node: three failures in a row disconnect; an address that nobody has
\* published is derived from the stored seed.
PollFails ==
  /\ running /\ failures < MaxFailures
  /\ failures' = failures + 1
  /\ connected' = (connected /\ failures' < 3)
  /\ UNCHANGED <<wFiles, running, wMemory, shared, derivers, busy, node, child, update, wRest>>

PollAnswers ==
  /\ running /\ Answers
  /\ failures' = 0 /\ connected' = TRUE
  /\ \/ shared' = IF shared = NoSeed /\ txt \in Seeds THEN txt ELSE shared
     \/ UNCHANGED shared
  /\ UNCHANGED <<wFiles, running, wMemory, derivers, busy, node, child, update, wRest>>

----------------------------------------------------------------------------
(* Deriving the address                                                    *)

DeriverWrites(s) ==
  /\ running /\ s \in derivers /\ Answers
  /\ tmp' = s
  /\ derivers' = derivers \ {s}
  /\ UNCHANGED <<txt, enc, running, wMemory, shared, busy, wNode, update, wRest>>

\* After its last attempt.
DeriverGivesUp(s) ==
  /\ running /\ s \in derivers
  /\ derivers' = derivers \ {s}
  /\ UNCHANGED <<wFiles, running, wMemory, shared, busy, wNode, update, wRest>>

\* The start of a frame: try_derive_address, then the address is published.
Frame ==
  /\ AtWork
  /\ IF address = NoSeed /\ tmp # NoSeed
     THEN address' = tmp /\ tmp' = NoSeed
     ELSE UNCHANGED <<address, tmp>>
  /\ shared' = IF address' # NoSeed THEN address' ELSE shared
  /\ UNCHANGED <<txt, enc, running, mnemonic, sealed, encrypted, derivers, busy, wNode,
                 update, wRest>>

----------------------------------------------------------------------------
(* Locking and encryption                                                  *)

\* try_unlock with the right password; a wrong one changes nothing.
Unlock ==
  /\ AtWork /\ sealed /\ enc \in Seeds
  /\ mnemonic' = enc /\ sealed' = FALSE
  /\ derivers' = derivers \cup {enc}
  /\ UNCHANGED <<wFiles, running, address, encrypted, shared, busy, wNode, update, wRest>>

LockNow ==
  /\ AtWork /\ ~sealed /\ encrypted
  /\ sealed' = TRUE /\ address' = NoSeed /\ mnemonic' = NoSeed
  /\ UNCHANGED <<wFiles, running, encrypted, shared, derivers, busy, wNode, update, wRest>>

\* A faulty variant: the old file goes first.
RemoveBeforeWrite(to) ==
  IF to = "enc" THEN txt' = NoSeed /\ UNCHANGED enc
  ELSE enc' = NoSeed /\ UNCHANGED txt

\* The first write of the dialog: the new file holds the seed.
WriteFirst(to) ==
  IF to = "enc" THEN enc' = mnemonic /\ UNCHANGED txt
  ELSE txt' = mnemonic /\ UNCHANGED enc

\* "Encrypt Wallet", "Update Password" and "Remove Encryption": one file is
\* written, then the other removed.
Encrypt(to) ==
  /\ AtWork /\ ~sealed /\ mnemonic # NoSeed
  /\ to = "txt" => encrypted
  /\ WriteFirst(to)
  /\ busy' = to
  /\ UNCHANGED <<tmp, running, wMemory, shared, derivers, wNode, update, wRest>>

Encrypted ==
  /\ running /\ busy # NoSeed
  /\ txt' = IF busy = "enc" THEN NoSeed ELSE mnemonic
  /\ enc' = IF busy = "enc" THEN mnemonic ELSE NoSeed
  /\ encrypted' = (busy = "enc")
  /\ busy' = NoSeed
  /\ UNCHANGED <<tmp, running, mnemonic, address, sealed, shared, derivers, wNode, update, wRest>>

----------------------------------------------------------------------------
(* The setup screen, shown while there is no address                       *)

SetupShown == AtWork /\ ~sealed /\ address = NoSeed

\* "Create New Wallet": the derivation may fail.
Create(s) ==
  /\ SetupShown /\ Answers /\ s \notin drawn
  /\ txt' = s /\ mnemonic' = s
  /\ address' \in {s, address}
  /\ drawn' = drawn \cup {s}
  /\ UNCHANGED <<enc, tmp, running, sealed, encrypted, shared, derivers, busy, wNode,
                 update, launches>>

\* "Restore Wallet": the file is written before the phrase is tried.
Restore(s) ==
  /\ SetupShown
  /\ txt' = s
  /\ \/ /\ s \in Seeds /\ Answers
        /\ address' = s /\ mnemonic' = s
     \/ UNCHANGED <<address, mnemonic>>
  /\ UNCHANGED <<enc, tmp, running, sealed, encrypted, shared, derivers, busy, wNode,
                 update, wRest>>

----------------------------------------------------------------------------
(* The self-update                                                         *)

\* check_for_update: once per launch, a strictly higher version is offered.
Offer ==
  /\ AtWork /\ update = "none"
  /\ update' = "offered"
  /\ UNCHANGED <<wFiles, running, wMemory, shared, derivers, busy, wNode, wRest>>

\* The banner's button is there unless a download goes on; a checksum that
\* did not match ("Update aborted") counts as one.
Download ==
  /\ AtWork /\ ~sealed /\ update \in {"offered", "failed"}
  /\ update' \in {"failed", "aborted", "ready"}
  /\ UNCHANGED <<wFiles, running, wMemory, shared, derivers, busy, wNode, wRest>>

Dismiss ==
  /\ AtWork /\ ~sealed /\ update \in {"offered", "failed", "aborted"}
  /\ update' = "dismissed"
  /\ UNCHANGED <<wFiles, running, wMemory, shared, derivers, busy, wNode, wRest>>

\* A frame finds the installer staged: the wallet closes, also when locked.
Install == update = "ready" /\ Exit

----------------------------------------------------------------------------

ProcessNext == Launch \/ Exit \/ Crash \/ PollAnswers

SeedNext ==
  \/ \E s \in derivers : DeriverWrites(s) \/ DeriverGivesUp(s)
  \/ Frame \/ Unlock \/ LockNow
  \/ \E to \in {"enc", "txt"} : Encrypt(to)
  \/ Encrypted
  \/ \E s \in Seeds : Create(s)
  \/ \E s \in Seeds \cup {BadPhrase} : Restore(s)

NodeNext ==
  \/ UserNode \/ NodeDies \/ StartNode \/ PollFails
  \/ Offer \/ Download \/ Dismiss \/ Install

WalletNext == ProcessNext \/ SeedNext \/ NodeNext

WalletSpec == WalletInit /\ [][WalletNext]_walletVars

----------------------------------------------------------------------------

\* The seed the wallet has loaded can be loaded again: it leaves the disk only
\* when the setup screen writes another over it, whatever fails or crashes
\* while it is encrypted, decrypted or its password changed.
LoadedSeedKept ==
  [][/\ mnemonic # NoSeed /\ mnemonic \in {txt, enc}
     /\ mnemonic \notin {txt', enc'}
     => /\ address = NoSeed
        /\ txt' \notin {txt, NoSeed}]_walletVars
=============================================================================
