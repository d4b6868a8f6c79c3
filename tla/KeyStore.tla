------------------------------ MODULE KeyStore ------------------------------
(***************************************************************************)
(* The RSA keys of the users: the tool that generates them                 *)
(* (tool/src/main.rs, common/src/crypto/rsa.rs), the directory it writes,  *)
(* and the caches that the agent (agent/src/crypto.rs) and the proxy       *)
(* (proxy/src/crypto.rs) fill from it when they first need a key and then  *)
(* keep until they are restarted.                                          *)
(*                                                                         *)
(* A key is known by its pair, which the name of its file tells, and by    *)
(* the run of the tool that generated it.                                  *)
(***************************************************************************)
EXTENDS Integers, Sequences

CONSTANTS
    UserOrder,    \* the users, in the order in which the tool serves them
    MaxRuns       \* how often the tool is run

Users == {UserOrder[i] : i \in DOMAIN UserOrder}
Procs == {"agent", "proxy"}

\* The order in which the tool writes the files of a user.
FileOrder == <<"AgentPrivateKey", "AgentPublicKey", "ProxyPrivateKey", "ProxyPublicKey">>
Files     == {FileOrder[i] : i \in DOMAIN FileOrder}

Absent == 0
Torn   == -1          \* fs::write has truncated the file and not yet filled it

BaseDir == "rsa_dir"  \* the directory of the users' directories
Idle    == -1         \* the tool is not running

\* main.rs serves a list of names; the base directory is none of them.
ASSUME MaxRunsAssumption   == MaxRuns \in Nat
ASSUME UserOrderAssumption == UserOrder \in Seq(Users) /\ UserOrder # <<>>
ASSUME BaseDirAssumption   == BaseDir \notin Users

VARIABLES
    disk,     \* per user and file: Absent, Torn, or the run that wrote it
    runs,     \* how often the tool was started
    dirs,     \* the directories that exist
    writing,  \* how many write steps the current run has done, or Idle
    phase,    \* per process: unloaded, loading, loaded, or poisoned
    todo,     \* per process: directory entries not yet visited
    opened,   \* per process: the entry it is reading, <<user, public key>>
    cache,    \* per process and user: <<>> or <<public key, private key>>
    untouched \* per process: users the tool has not written to since its load

vars == <<disk, dirs, runs, writing, phase, todo, opened, cache, untouched>>

toolVars == <<dirs, runs, writing>>
procVars == <<phase, todo, opened, cache>>

\* Two steps, truncate and fill, for each file of each user.
Steps == 2 * Len(FileOrder) * Len(UserOrder)

\* The state is well formed, and a cache entry holds two whole keys.
TypeOK ==
    /\ disk \in [Users -> [Files -> {Absent, Torn} \cup 1..MaxRuns]]
    /\ runs \in 0..MaxRuns
    /\ dirs \subseteq Users \cup {BaseDir}
    /\ writing \in {Idle} \cup 0..(Steps - 1)
    /\ phase \in [Procs -> {"unloaded", "loading", "loaded", "poisoned"}]
    /\ todo \in [Procs -> SUBSET Users]
    /\ opened \in [Procs -> {<<>>} \cup {<<u>> : u \in Users} \cup (Users \X (1..MaxRuns))]
    /\ cache \in [Procs -> [Users -> {<<>>} \cup ((1..MaxRuns) \X (1..MaxRuns))]]
    /\ untouched \in [Procs -> SUBSET Users]

Init ==
    /\ disk = [u \in Users |-> [f \in Files |-> Absent]]
    /\ runs = 0
    /\ dirs = {}
    /\ writing = Idle
    /\ phase = [p \in Procs |-> "unloaded"]
    /\ todo = [p \in Procs |-> {}]
    /\ opened = [p \in Procs |-> <<>>]
    /\ cache = [p \in Procs |-> [u \in Users |-> <<>>]]
    /\ untouched = [p \in Procs |-> {}]

-----------------------------------------------------------------------------
(* The tool                                                                *)

StartTool ==
    /\ writing = Idle
    /\ runs < MaxRuns
    /\ runs' = runs + 1
    /\ writing' = 0
    /\ UNCHANGED <<disk, dirs, untouched>> /\ UNCHANGED procVars

\* The user and the file of the next step.
WriteUser == UserOrder[writing \div (2 * Len(FileOrder)) + 1]
WriteFile == FileOrder[((writing \div 2) % Len(FileOrder)) + 1]

\* create_dir_all, when the user's directory is missing.  A process that is
\* walking through the base directory meets the new one or not.
MakeDirectory ==
    /\ writing # Idle
    /\ WriteUser \notin dirs
    /\ IF BaseDir \notin dirs
       THEN /\ dirs' = dirs \cup {BaseDir}
            /\ UNCHANGED todo
       ELSE /\ dirs' = dirs \cup {WriteUser}
            /\ \E seen \in SUBSET {p \in Procs : phase[p] = "loading"} :
                  todo' = [p \in Procs |-> IF p \in seen THEN todo[p] \cup {WriteUser} ELSE todo[p]]
    /\ UNCHANGED <<disk, runs, writing, phase, opened, cache, untouched>>

\* One half of an fs::write.
WriteKey ==
    /\ writing # Idle
    /\ WriteUser \in dirs
    /\ disk' = [disk EXCEPT ![WriteUser][WriteFile] =
                   IF writing % 2 = 0 THEN Torn ELSE runs]
    /\ writing' = IF writing = Steps - 1 THEN Idle ELSE writing + 1
    /\ untouched' = [p \in Procs |-> untouched[p] \ {WriteUser}]
    /\ UNCHANGED <<dirs, runs>> /\ UNCHANGED procVars

\* A write fails and `?` ends the tool, or it is interrupted.
ToolStops ==
    /\ writing # Idle
    /\ writing' = Idle
    /\ UNCHANGED <<disk, dirs, runs, untouched>> /\ UNCHANGED procVars

-----------------------------------------------------------------------------
(* The caches                                                              *)

\* Mutant: the agent takes its own public key.
Mutant_PublicKey(p) == IF p = "agent" THEN "AgentPublicKey" ELSE "AgentPublicKey"

\* Each process encrypts with the other's public key, and decrypts with its own
\* private key.
PublicKey(p) == IF p = "agent" THEN "ProxyPublicKey" ELSE "AgentPublicKey"
PrivateKey(p) == IF p = "agent" THEN "AgentPrivateKey" ELSE "ProxyPrivateKey"

\* The first use of RSA_CRYPTO reads the directory.  Without one, new() fails,
\* expect panics, and so does every later use.
StartLoad(p) ==
    /\ phase[p] = "unloaded"
    /\ phase' = [phase EXCEPT ![p] = IF BaseDir \in dirs THEN "loading" ELSE "poisoned"]
    /\ todo' = [todo EXCEPT ![p] = dirs \ {BaseDir}]
    /\ untouched' = [untouched EXCEPT ![p] = Users]
    /\ UNCHANGED <<disk, opened, cache>> /\ UNCHANGED toolVars

\* Both files of an entry are opened; if one is missing the entry is skipped.
OpenKeys(p) ==
    /\ phase[p] = "loading"
    /\ opened[p] = <<>>
    /\ \E u \in todo[p] :
          /\ todo' = [todo EXCEPT ![p] = @ \ {u}]
          /\ opened' = IF Absent \in {disk[u][PublicKey(p)], disk[u][PrivateKey(p)]}
                       THEN opened ELSE [opened EXCEPT ![p] = <<u>>]
    /\ UNCHANGED <<disk, phase, cache, untouched>> /\ UNCHANGED toolVars

\* RsaCrypto::new reads the public key; one that does not parse skips the entry.
ReadPublicKey(p) ==
    /\ Len(opened[p]) = 1
    /\ LET key == disk[opened[p][1]][PublicKey(p)]
       IN  opened' = [opened EXCEPT ![p] = IF key = Torn THEN <<>> ELSE <<@[1], key>>]
    /\ UNCHANGED <<disk, phase, todo, cache, untouched>> /\ UNCHANGED toolVars

\* Mutant: a key that does not parse ends the whole load.
Mutant_ReadPrivateKey(p) ==
    /\ Len(opened[p]) = 2
    /\ LET u   == opened[p][1]
           key == disk[u][PrivateKey(p)]
       IN  /\ cache' = IF key = Torn THEN cache
                       ELSE [cache EXCEPT ![p][u] = <<opened[p][2], key>>]
           /\ todo' = IF key = Torn THEN [todo EXCEPT ![p] = {}] ELSE todo
    /\ opened' = [opened EXCEPT ![p] = <<>>]
    /\ UNCHANGED <<disk, phase, untouched>> /\ UNCHANGED toolVars

\* Mutant: the parse error is ignored.
Mutant_ReadPrivateKey_Torn(p) ==
    /\ Len(opened[p]) = 2
    /\ LET u == opened[p][1]
       IN  cache' = [cache EXCEPT ![p][u] = <<opened[p][2], disk[u][PrivateKey(p)]>>]
    /\ opened' = [opened EXCEPT ![p] = <<>>]
    /\ UNCHANGED <<disk, phase, todo, untouched>> /\ UNCHANGED toolVars

\* ... and then the private key.
ReadPrivateKey(p) ==
    /\ Len(opened[p]) = 2
    /\ LET u   == opened[p][1]
           key == disk[u][PrivateKey(p)]
       IN  cache' = IF key = Torn THEN cache
                    ELSE [cache EXCEPT ![p][u] = <<opened[p][2], key>>]
    /\ opened' = [opened EXCEPT ![p] = <<>>]
    /\ UNCHANGED <<disk, phase, todo, untouched>> /\ UNCHANGED toolVars

EndLoad(p) ==
    /\ phase[p] = "loading"
    /\ todo[p] = {} /\ opened[p] = <<>>
    /\ phase' = [phase EXCEPT ![p] = "loaded"]
    /\ UNCHANGED <<disk, todo, opened, cache, untouched>> /\ UNCHANGED toolVars

\* The process is stopped and started again, at any time (external).
Restart(p) ==
    /\ phase[p] # "unloaded"
    /\ phase' = [phase EXCEPT ![p] = "unloaded"]
    /\ todo' = [todo EXCEPT ![p] = {}]
    /\ opened' = [opened EXCEPT ![p] = <<>>]
    /\ cache' = [cache EXCEPT ![p] = [u \in Users |-> <<>>]]
    /\ untouched' = [untouched EXCEPT ![p] = {}]
    /\ UNCHANGED disk /\ UNCHANGED toolVars

Load(p) ==
    StartLoad(p) \/ OpenKeys(p) \/ ReadPublicKey(p) \/ ReadPrivateKey(p) \/ EndLoad(p)

Next ==
    \/ StartTool \/ MakeDirectory \/ WriteKey \/ ToolStops
    \/ \E p \in Procs : Load(p) \/ Restart(p)

Spec == Init /\ [][Next]_vars

-----------------------------------------------------------------------------
(* The use of the keys                                                     *)

Pair(file) == IF file \in {"AgentPrivateKey", "AgentPublicKey"} THEN "agent" ELSE "proxy"

EncryptionKey(p, u) == <<Pair(PublicKey(p)), cache[p][u][1]>>
DecryptionKey(p, u) == <<Pair(PrivateKey(p)), cache[p][u][2]>>

\* What becomes of a message of user u from p to q: both sides fetch the user's
\* keys; p seals the message's AES token with RSA and q opens it.
Deliver(p, q, u) ==
    IF cache[p][u] = <<>> \/ cache[q][u] = <<>> THEN "not_found"
    ELSE IF EncryptionKey(p, u) # DecryptionKey(q, u) THEN "rsa_error"
    ELSE "ok"

\* A request and its answer.
ExchangeWorks(u) ==
    Deliver("agent", "proxy", u) = "ok" /\ Deliver("proxy", "agent", u) = "ok"

-----------------------------------------------------------------------------
(* Properties                                                              *)

\* Each of the user's two pairs is whole and comes from one run; a run that ends
\* between the pairs leaves them of different runs.
Consistent(u) ==
    /\ \A f \in Files : disk[u][f] \notin {Absent, Torn}
    /\ disk[u]["AgentPrivateKey"] = disk[u]["AgentPublicKey"]
    /\ disk[u]["ProxyPrivateKey"] = disk[u]["ProxyPublicKey"]

\* Agent and proxy agree on a user's keys if both loaded them after they were
\* written and before they are written again, whatever became of the tool's run,
\* of other users, and of the order in which files and directories were read.
KeysInStep ==
    \A u \in Users :
        /\ \A p \in Procs : phase[p] = "loaded" /\ u \in untouched[p]
        /\ Consistent(u)
        => ExchangeWorks(u)

\* A missing or torn key costs its own user only: every other user, whose two
\* files are whole, is loaded with just these keys.
UsersIndependent ==
    \A p \in Procs : phase[p] = "loaded" =>
        \A u \in untouched[p] :
            LET keys == <<disk[u][PublicKey(p)], disk[u][PrivateKey(p)]>>
            IN  cache[p][u] = IF keys \in (1..MaxRuns) \X (1..MaxRuns) THEN keys ELSE <<>>
=============================================================================
