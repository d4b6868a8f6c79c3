--------------------------- MODULE KeyStoreProofs ---------------------------
(***************************************************************************)
(* Proofs about KeyStore, for every list of users and every number of runs *)
(* of the tool: whatever is loaded is what the files hold, user by user,   *)
(* and so agent and proxy agree on the keys.                               *)
(***************************************************************************)
EXTENDS KeyStore, TLAPS

(***************************************************************************)
(* The inductive invariant.  UsersIndependent says what a finished load    *)
(* has found; while the load runs, a user may still be ahead of it or in   *)
(* its hands.                                                              *)
(***************************************************************************)

\* A run of the tool that writes is one that was counted, and a user without a
\* directory has no file.
ToolOrder ==
    /\ writing # Idle => runs \in 1..MaxRuns
    /\ \A u \in Users \ dirs : \A f \in Files : disk[u][f] = Absent

\* A load visits directories that exist, one at a time, and has opened files
\* that exist.
LoadOrder ==
    \A p \in Procs :
        /\ phase[p] # "loading" => opened[p] = <<>>
        /\ phase[p] = "unloaded" => \A u \in Users : cache[p][u] = <<>>
        /\ phase[p] = "loading" => todo[p] \subseteq dirs
        /\ opened[p] # <<>> =>
              /\ opened[p][1] \in dirs \ todo[p]
              /\ disk[opened[p][1]][PublicKey(p)] # Absent
              /\ disk[opened[p][1]][PrivateKey(p)] # Absent

\* What a load makes of the files of u.
Loadable(p, u) ==
    LET keys == <<disk[u][PublicKey(p)], disk[u][PrivateKey(p)]>>
    IN  IF keys \in (1..MaxRuns) \X (1..MaxRuns) THEN keys ELSE <<>>

\* An untouched user is ahead of the load, in its hands, or done.
Ahead(p, u)  == phase[p] = "loading" /\ u \in todo[p] /\ cache[p][u] = <<>>
InHand(p, u) ==
    /\ opened[p] \in {<<u>>, <<u, disk[u][PublicKey(p)]>>}
    /\ cache[p][u] = <<>>
Visited(p, u) ==
    /\ phase[p] = "loading" => u \notin todo[p]
    /\ opened[p] # <<>> => opened[p][1] # u
    /\ cache[p][u] = Loadable(p, u)

UserProgress ==
    \A p \in Procs : phase[p] \in {"loading", "loaded"} =>
        \A u \in untouched[p] : Ahead(p, u) \/ InHand(p, u) \/ Visited(p, u)

IInv == TypeOK /\ ToolOrder /\ LoadOrder /\ UserProgress

USE DEF Procs, Absent, Torn, Idle

-----------------------------------------------------------------------------
(* Lemmas                                                                  *)

\* A run of the tool has something to write.
LEMMA StepsPositive == Steps \in Nat \ {0}
BY UserOrderAssumption DEF Steps, FileOrder

\* The next write of a running tool is one of a file of a user.
LEMMA WriteTarget ==
    ASSUME TypeOK, writing # Idle
    PROVE  WriteUser \in Users /\ WriteFile \in Files
<1>1. Len(UserOrder) \in Nat /\ DOMAIN UserOrder = 1..Len(UserOrder)
  BY UserOrderAssumption
<1>2. writing \in 0..(8 * Len(UserOrder) - 1)
  BY DEF TypeOK, Steps, FileOrder
<1>3. writing \div 8 + 1 \in 1..Len(UserOrder)
  BY <1>1, <1>2
<1>4. ((writing \div 2) % 4) + 1 \in 1..4
  BY <1>2
<1>5. WriteUser \in Users
  BY <1>1, <1>3 DEF WriteUser, Users, FileOrder
<1> QED
  BY <1>4, <1>5 DEF WriteFile, Files, FileOrder

\* The files of a process are files.
LEMMA KeyFiles ==
    ASSUME NEW p \in Procs
    PROVE  PublicKey(p) \in Files /\ PrivateKey(p) \in Files
BY DEF PublicKey, PrivateKey, Files, FileOrder

\* The forms of opened, by its length.
LEMMA OpenedForms ==
    ASSUME TypeOK, NEW p \in Procs
    PROVE  /\ opened[p] = <<>> \/ Len(opened[p]) \in {1, 2}
           /\ Len(opened[p]) = 1 =>
                 opened[p] # <<>> /\ opened[p][1] \in Users /\ opened[p] = <<opened[p][1]>>
           /\ Len(opened[p]) = 2 =>
                 /\ opened[p] # <<>> /\ opened[p][1] \in Users /\ opened[p][2] \in 1..MaxRuns
                 /\ opened[p] = <<opened[p][1], opened[p][2]>>
BY DEF TypeOK

-----------------------------------------------------------------------------
(* Type correctness                                                        *)

\* Every step keeps the variables in their types.
LEMMA TypeStep ==
    ASSUME TypeOK, ToolOrder, LoadOrder, [Next]_vars
    PROVE  TypeOK'
<1> USE MaxRunsAssumption DEF TypeOK, toolVars, procVars
<1>1. CASE StartTool
  BY <1>1, StepsPositive DEF StartTool
<1>2. CASE MakeDirectory
  BY <1>2, WriteTarget DEF MakeDirectory
<1>3. CASE WriteKey
  <2>1. WriteUser \in Users /\ WriteFile \in Files /\ runs \in 1..MaxRuns
    BY <1>3, WriteTarget DEF WriteKey, ToolOrder
  <2>2. writing' \in {Idle} \cup 0..(Steps - 1)
    BY <1>3, StepsPositive DEF WriteKey
  <2> QED
    BY <1>3, <2>1, <2>2 DEF WriteKey
<1>4. CASE ToolStops
  BY <1>4 DEF ToolStops
<1>5. ASSUME NEW p \in Procs, StartLoad(p)
      PROVE  TypeOK'
  BY <1>5 DEF StartLoad
<1>6. ASSUME NEW p \in Procs, OpenKeys(p)
      PROVE  TypeOK'
  BY <1>6 DEF OpenKeys
<1>7. ASSUME NEW p \in Procs, ReadPublicKey(p)
      PROVE  TypeOK'
  <2> DEFINE u == opened[p][1]
             key == disk[u][PublicKey(p)]
  <2>1. u \in Users /\ opened[p] = <<u>>
    BY <1>7, OpenedForms DEF ReadPublicKey
  <2>2. key # Torn => key \in 1..MaxRuns
    BY <2>1, KeyFiles DEF LoadOrder
  <2> HIDE DEF u, key
  <2>3. opened' = [opened EXCEPT ![p] = IF key = Torn THEN <<>> ELSE <<u, key>>]
    BY <1>7 DEF ReadPublicKey, u, key
  <2>4. (IF key = Torn THEN <<>> ELSE <<u, key>>) \in {<<>>} \cup (Users \X (1..MaxRuns))
    BY <2>1, <2>2
  <2> QED
    BY <1>7, <2>3, <2>4 DEF ReadPublicKey
<1>8. ASSUME NEW p \in Procs, ReadPrivateKey(p)
      PROVE  TypeOK'
  <2> DEFINE u == opened[p][1]
             key == disk[u][PrivateKey(p)]
  <2>1. u \in Users /\ opened[p] # <<>> /\ opened[p][2] \in 1..MaxRuns
    BY <1>8, OpenedForms DEF ReadPrivateKey
  <2>2. key # Torn => key \in 1..MaxRuns
    BY <2>1, KeyFiles DEF LoadOrder
  <2> HIDE DEF u, key
  <2>3. cache' = IF key = Torn THEN cache ELSE [cache EXCEPT ![p][u] = <<opened[p][2], key>>]
    BY <1>8 DEF ReadPrivateKey, u, key
  <2>4. cache' \in [Procs -> [Users -> {<<>>} \cup ((1..MaxRuns) \X (1..MaxRuns))]]
    BY <2>1, <2>2, <2>3
  <2> QED
    BY <1>8, <2>4 DEF ReadPrivateKey
<1>9. ASSUME NEW p \in Procs, EndLoad(p)
      PROVE  TypeOK'
  BY <1>9 DEF EndLoad
<1>10. ASSUME NEW p \in Procs, Restart(p)
       PROVE  TypeOK'
  BY <1>10 DEF Restart
<1>11. CASE UNCHANGED vars
  BY <1>11 DEF vars
<1> QED
  BY <1>1, <1>2, <1>3, <1>4, <1>5, <1>6, <1>7, <1>8, <1>9, <1>10, <1>11 DEF Next, Load

-----------------------------------------------------------------------------
(* The order of the tool and of the loads                                  *)

\* Files are written in directories that exist, by a run that was counted.
LEMMA ToolStep ==
    ASSUME TypeOK, ToolOrder, [Next]_vars
    PROVE  ToolOrder'
<1> USE MaxRunsAssumption DEF ToolOrder, toolVars, procVars
<1>1. CASE StartTool
  BY <1>1 DEF StartTool, TypeOK
<1>2. CASE MakeDirectory
  BY <1>2 DEF MakeDirectory
<1>3. CASE WriteKey
  BY <1>3, WriteTarget DEF WriteKey, TypeOK
<1>4. CASE ToolStops
  BY <1>4 DEF ToolStops
<1>5. ASSUME NEW p \in Procs, Load(p) \/ Restart(p)
      PROVE  ToolOrder'
  BY <1>5 DEF Load, StartLoad, OpenKeys, ReadPublicKey, ReadPrivateKey, EndLoad, Restart
<1>6. CASE UNCHANGED vars
  BY <1>6 DEF vars
<1> QED
  BY <1>1, <1>2, <1>3, <1>4, <1>5, <1>6 DEF Next

\* The directories a load has still to visit, and the files it has opened, exist.
LEMMA LoadStep ==
    ASSUME TypeOK, ToolOrder, LoadOrder, [Next]_vars
    PROVE  LoadOrder'
<1> USE MaxRunsAssumption DEF LoadOrder, TypeOK, toolVars, procVars
<1>1. CASE StartTool
  BY <1>1 DEF StartTool
<1>2. CASE MakeDirectory
  BY <1>2, WriteTarget DEF MakeDirectory
<1>3. CASE WriteKey
  <2>1. \A u \in Users, f \in Files : disk[u][f] # Absent => disk'[u][f] # Absent
    BY <1>3, WriteTarget DEF WriteKey, ToolOrder
  <2>2. \A p \in Procs : opened[p] # <<>> => opened[p][1] \in Users
    BY OpenedForms
  <2> QED
    BY <1>3, <2>1, <2>2, KeyFiles DEF WriteKey
<1>4. CASE ToolStops
  BY <1>4 DEF ToolStops
<1>5. ASSUME NEW p \in Procs, StartLoad(p)
      PROVE  LoadOrder'
  BY <1>5 DEF StartLoad
<1>6. ASSUME NEW p \in Procs, OpenKeys(p)
      PROVE  LoadOrder'
  BY <1>6 DEF OpenKeys
<1>7. ASSUME NEW p \in Procs, ReadPublicKey(p)
      PROVE  LoadOrder'
  BY <1>7, OpenedForms DEF ReadPublicKey
<1>8. ASSUME NEW p \in Procs, ReadPrivateKey(p)
      PROVE  LoadOrder'
  BY <1>8, OpenedForms DEF ReadPrivateKey
<1>9. ASSUME NEW p \in Procs, EndLoad(p)
      PROVE  LoadOrder'
  BY <1>9 DEF EndLoad
<1>10. ASSUME NEW p \in Procs, Restart(p)
       PROVE  LoadOrder'
  BY <1>10 DEF Restart
<1>11. CASE UNCHANGED vars
  BY <1>11 DEF vars
<1> QED
  BY <1>1, <1>2, <1>3, <1>4, <1>5, <1>6, <1>7, <1>8, <1>9, <1>10, <1>11 DEF Next, Load

-----------------------------------------------------------------------------
(* The progress of a load                                                  *)

\* A load finds of every user that is not written to meanwhile what there is.
LEMMA ProgressStep ==
    ASSUME TypeOK, ToolOrder, LoadOrder, UserProgress, [Next]_vars
    PROVE  UserProgress'
<1> USE DEF TypeOK, toolVars, procVars
<1> SUFFICES ASSUME NEW p \in Procs, phase'[p] \in {"loading", "loaded"},
                    NEW u \in untouched'[p]
             PROVE  Ahead(p, u)' \/ InHand(p, u)' \/ Visited(p, u)'
  BY DEF UserProgress
<1> DEFINE Now == phase[p] \in {"loading", "loaded"} /\ u \in untouched[p]
<1>0. Now => Ahead(p, u) \/ InHand(p, u) \/ Visited(p, u)
  BY DEF UserProgress
<1> USE DEF Ahead, InHand, Visited
<1>1. CASE StartTool
  BY <1>0, <1>1 DEF StartTool, Loadable
<1>2. CASE MakeDirectory
  <2>1. Now
    BY <1>2 DEF MakeDirectory
  <2>2. CASE BaseDir \notin dirs
    BY <1>0, <1>2, <2>1, <2>2 DEF MakeDirectory, Loadable
  <2>3. CASE BaseDir \in dirs /\ u # WriteUser
    <3>1. u \in todo'[p] <=> u \in todo[p]
      BY <1>2, <2>3, WriteTarget DEF MakeDirectory
    <3> QED
      BY <1>0, <1>2, <2>1, <3>1 DEF MakeDirectory, Loadable
  <2>4. CASE BaseDir \in dirs /\ u = WriteUser
    <3>1. u \notin dirs /\ u \in Users
      BY <1>2, <2>4, WriteTarget DEF MakeDirectory
    <3>2. Loadable(p, u) = <<>>
      BY <3>1, KeyFiles, MaxRunsAssumption DEF ToolOrder, Loadable
    <3>3. opened[p] # <<>> => opened[p][1] # u
      BY <3>1 DEF LoadOrder
    <3>4. phase[p] = "loading" => u \notin todo[p]
      BY <3>1 DEF LoadOrder
    <3>5. cache[p][u] = <<>>
      BY <1>0, <2>1, <3>2, <3>3, <3>4
    <3>6. Loadable(p, u)' = <<>>
      BY <1>2, <3>2 DEF MakeDirectory, Loadable
    <3> QED
      BY <1>2, <2>1, <3>3, <3>5, <3>6 DEF MakeDirectory
  <2> QED
    BY <2>2, <2>3, <2>4
<1>3. CASE WriteKey
  <2>1. Now /\ u # WriteUser
    BY <1>3, WriteTarget DEF WriteKey
  <2>2. disk'[u] = disk[u]
    BY <1>3, <2>1, WriteTarget DEF WriteKey
  <2> QED
    BY <1>0, <1>3, <2>1, <2>2 DEF WriteKey, Loadable
<1>4. CASE ToolStops
  BY <1>0, <1>4 DEF ToolStops, Loadable
<1>5. ASSUME NEW q \in Procs, q # p, Load(q) \/ Restart(q)
      PROVE  Ahead(p, u)' \/ InHand(p, u)' \/ Visited(p, u)'
  <2>1. /\ phase'[p] = phase[p] /\ todo'[p] = todo[p] /\ opened'[p] = opened[p]
        /\ cache'[p] = cache[p] /\ untouched'[p] = untouched[p] /\ disk' = disk
    BY <1>5 DEF Load, StartLoad, OpenKeys, ReadPublicKey, ReadPrivateKey, EndLoad, Restart
  <2> QED
    BY <1>0, <2>1 DEF Loadable
<1>6. CASE StartLoad(p)
  <2>1. u \in Users /\ opened[p] = <<>> /\ cache[p][u] = <<>>
    BY <1>6 DEF StartLoad, LoadOrder
  <2>2. CASE u \in dirs
    BY <1>6, <2>1, <2>2, BaseDirAssumption DEF StartLoad
  <2>3. CASE u \notin dirs
    <3>1. Loadable(p, u)' = <<>>
      BY <1>6, <2>1, <2>3, KeyFiles, MaxRunsAssumption DEF StartLoad, ToolOrder, Loadable
    <3> QED
      BY <1>6, <2>1, <2>3, <3>1 DEF StartLoad
  <2> QED
    BY <2>2, <2>3
<1>7. CASE OpenKeys(p)
  <2>1. Now /\ ~InHand(p, u) /\ disk' = disk /\ cache' = cache /\ phase' = phase
    BY <1>7 DEF OpenKeys
  <2>2. PICK v \in todo[p] :
          /\ todo' = [todo EXCEPT ![p] = @ \ {v}]
          /\ opened' = IF Absent \in {disk[v][PublicKey(p)], disk[v][PrivateKey(p)]}
                       THEN opened ELSE [opened EXCEPT ![p] = <<v>>]
    BY <1>7 DEF OpenKeys
  <2>3. Loadable(p, u)' = Loadable(p, u)
    BY <2>1 DEF Loadable
  <2>4. CASE v # u
    BY <1>0, <1>7, <2>1, <2>2, <2>3, <2>4 DEF OpenKeys
  <2>5. CASE v = u /\ Absent \in {disk[u][PublicKey(p)], disk[u][PrivateKey(p)]}
    <3>1. Loadable(p, u) = <<>>
      BY <2>5, MaxRunsAssumption DEF Loadable
    <3> QED
      BY <1>0, <1>7, <2>1, <2>2, <2>3, <2>5, <3>1 DEF OpenKeys
  <2>6. CASE v = u /\ Absent \notin {disk[u][PublicKey(p)], disk[u][PrivateKey(p)]}
    BY <1>0, <1>7, <2>1, <2>2, <2>3, <2>6 DEF OpenKeys
  <2> QED
    BY <2>4, <2>5, <2>6
<1>8. CASE ReadPublicKey(p)
  <2> DEFINE key == disk[opened[p][1]][PublicKey(p)]
  <2>1. /\ Now /\ phase[p] = "loading" /\ opened[p] = <<opened[p][1]>>
        /\ disk' = disk /\ cache' = cache /\ phase' = phase /\ todo' = todo
        /\ opened'[p] = IF key = Torn THEN <<>> ELSE <<opened[p][1], key>>
    BY <1>8, OpenedForms DEF ReadPublicKey, LoadOrder
  <2>2. Loadable(p, u)' = Loadable(p, u)
    BY <2>1 DEF Loadable
  <2>3. CASE opened[p][1] # u
    BY <1>0, <2>1, <2>2, <2>3
  <2>4. CASE opened[p][1] = u /\ key = Torn
    <3>1. Loadable(p, u) = <<>>
      BY <2>4, MaxRunsAssumption DEF Loadable
    <3>2. u \notin todo[p]
      BY <2>1, <2>4 DEF LoadOrder
    <3> QED
      BY <1>0, <2>1, <2>2, <2>4, <3>1, <3>2
  <2>5. CASE opened[p][1] = u /\ key # Torn
    BY <1>0, <2>1, <2>2, <2>5 DEF LoadOrder
  <2> QED
    BY <2>3, <2>4, <2>5
<1>9. CASE ReadPrivateKey(p)
  <2> DEFINE v == opened[p][1]
             key == disk[v][PrivateKey(p)]
  <2>1. /\ v \in Users /\ opened[p] = <<v, opened[p][2]>> /\ opened[p][2] \in 1..MaxRuns
        /\ opened[p] # <<>>
    BY <1>9, OpenedForms DEF ReadPrivateKey
  <2>2. /\ Now /\ phase[p] = "loading"
        /\ disk' = disk /\ phase' = phase /\ todo' = todo /\ opened'[p] = <<>>
        /\ cache' = IF key = Torn THEN cache
                    ELSE [cache EXCEPT ![p][v] = <<opened[p][2], key>>]
    BY <1>9, <2>1 DEF ReadPrivateKey, LoadOrder
  <2>3. Loadable(p, u)' = Loadable(p, u)
    BY <2>2 DEF Loadable
  <2>4. CASE v # u
    <3>1. cache'[p][u] = cache[p][u]
      BY <2>1, <2>2, <2>4
    <3> QED
      BY <1>0, <2>1, <2>2, <2>3, <2>4, <3>1
  <2>5. CASE v = u
    <3>1. u \notin todo[p] /\ key # Absent
      BY <2>1, <2>5 DEF LoadOrder
    <3>2. cache[p][u] = <<>> /\ opened[p][2] = disk[u][PublicKey(p)]
      BY <1>0, <2>1, <2>2, <2>5, <3>1
    <3>3. key = Torn \/ key \in 1..MaxRuns
      BY <2>1, <3>1, KeyFiles
    <3>4. cache'[p][u] = Loadable(p, u)
      BY <2>1, <2>2, <2>5, <3>2, <3>3, MaxRunsAssumption DEF Loadable
    <3> QED
      BY <2>2, <2>3, <3>1, <3>4
  <2> QED
    BY <2>4, <2>5
<1>10. CASE EndLoad(p)
  BY <1>0, <1>10 DEF EndLoad, Loadable
<1>11. CASE Restart(p)
  BY <1>11 DEF Restart
<1>12. CASE UNCHANGED vars
  BY <1>0, <1>12 DEF vars, Loadable
<1> QED
  BY <1>1, <1>2, <1>3, <1>4, <1>5, <1>6, <1>7, <1>8, <1>9, <1>10, <1>11, <1>12
     DEF Next, Load

-----------------------------------------------------------------------------
(* The theorems                                                            *)

\* The invariant holds throughout: the tool of tool/src/main.rs and the loads of
\* RSA_CRYPTO, stopped and restarted anywhere, keep it.
THEOREM Invariance == Spec => []IInv
<1>1. Init => IInv
  <2> SUFFICES ASSUME Init
               PROVE  IInv
    OBVIOUS
  <2>1. TypeOK
    BY StepsPositive, MaxRunsAssumption DEF Init, TypeOK
  <2>2. ToolOrder /\ LoadOrder /\ UserProgress
    BY DEF Init, ToolOrder, LoadOrder, UserProgress
  <2> QED
    BY <2>1, <2>2 DEF IInv
<1>2. IInv /\ [Next]_vars => IInv'
  BY TypeStep, ToolStep, LoadStep, ProgressStep DEF IInv
<1> QED
  BY <1>1, <1>2, PTL DEF Spec

\* The variables keep their types; a cache entry holds two whole keys.
THEOREM TypeCorrect == Spec => []TypeOK
<1>1. IInv => TypeOK
  BY DEF IInv
<1> QED
  BY <1>1, Invariance, PTL

\* In a finished load every user the tool has left alone since has just what its
\* files hold, whatever the files of the other users are.
THEOREM Independence == Spec => []UsersIndependent
<1>1. IInv => UsersIndependent
  <2> SUFFICES ASSUME IInv, NEW p \in Procs, phase[p] = "loaded", NEW u \in untouched[p]
               PROVE  cache[p][u] = Loadable(p, u)
    BY DEF UsersIndependent, Loadable
  <2>1. opened[p] = <<>>
    BY DEF IInv, LoadOrder
  <2>2. ~Ahead(p, u) /\ ~InHand(p, u)
    BY <2>1 DEF Ahead, InHand
  <2> QED
    BY <2>2 DEF IInv, UserProgress, Visited
<1> QED
  BY <1>1, Invariance, PTL

\* Agent and proxy that loaded a user's keys between two writes of them can open
\* each other's tokens.
THEOREM Agreement == Spec => []KeysInStep
<1>1. TypeOK /\ UsersIndependent => KeysInStep
  <2> SUFFICES ASSUME TypeOK, UsersIndependent, NEW u \in Users, Consistent(u),
                      \A p \in Procs : phase[p] = "loaded" /\ u \in untouched[p]
               PROVE  ExchangeWorks(u)
    BY DEF KeysInStep
  <2>1. \A f \in Files : disk[u][f] \in 1..MaxRuns
    BY DEF Consistent, TypeOK
  <2>2. \A p \in Procs :
           cache[p][u] = <<disk[u][PublicKey(p)], disk[u][PrivateKey(p)]>>
    BY <2>1, KeyFiles DEF UsersIndependent
  <2>3. /\ cache["agent"][u] = <<disk[u]["ProxyPublicKey"], disk[u]["AgentPrivateKey"]>>
        /\ cache["proxy"][u] = <<disk[u]["AgentPublicKey"], disk[u]["ProxyPrivateKey"]>>
    BY <2>2 DEF PublicKey, PrivateKey
  <2>4. Deliver("agent", "proxy", u) = "ok"
    BY <2>3 DEF Deliver, EncryptionKey, DecryptionKey, Pair, PublicKey, PrivateKey, Consistent
  <2>5. Deliver("proxy", "agent", u) = "ok"
    BY <2>3 DEF Deliver, EncryptionKey, DecryptionKey, Pair, PublicKey, PrivateKey, Consistent
  <2> QED
    BY <2>4, <2>5 DEF ExchangeWorks
<1> QED
  BY <1>1, TypeCorrect, Independence, PTL
=============================================================================
