---------------------------- MODULE TeamsProofs ----------------------------
(***************************************************************************)
(* Proofs about Teams, for every set of teams and every bound.  The        *)
(* argument has two halves.  The key ring: a row is inserted after its key *)
(* is on disk and deleted before its key is removed, and every write of    *)
(* the file is of what is held (KeysHeld).  The messages: a call that has  *)
(* seen no change of the active team holds the team that is active now     *)
(* (Steady).                                                               *)
(***************************************************************************)
EXTENDS Teams, TLAPS

\* Memory and the operation under way agree with the rows.
KeysHeld ==
  /\ isLoggedIn => identity
  /\ op.at # "idle" => identity
  /\ ~identity => teamKeys = {} /\ activeTeam = NoTeam /\ saves = "good"
  /\ identity => teams \subseteq teamKeys \cup lost
  /\ op.at \in {"activate", "row"} =>
       keysFile.at = "whole" /\ op.team \in keysFile.keys /\ op.team \in teamKeys
  /\ op.at = "unkey" => op.team \notin teams

\* What a call under way holds is the active team, unless it saw it change.
Steady ==
  /\ op.at \in {"row", "network", "conv"} /\ "op" \notin stale => op.team = activeTeam
  /\ send.at # "idle" /\ "send" \notin stale =>
       /\ send.conv = activeTeam
       /\ send.at \in {"store", "seal", "publish"} => send.team = activeTeam
       /\ send.at = "publish" => send.key = activeTeam
  /\ event # NoTeam /\ "event" \notin stale => event = activeTeam

Ring == RowsHaveKeys /\ SavedAsHeld /\ ActiveHasKey /\ KeysHeld

\* The steps that leave the key ring, its file and the rows alone.
RingStill == UNCHANGED <<identity, isLoggedIn, teamKeys, activeTeam, keysFile, saves, lost, teams>>
-----------------------------------------------------------------------------
(* Types. *)

Files == [at : {"absent", "torn", "whole"}, keys : SUBSET Team, active : Active]
Ops   == [at : {"idle", "key", "activate", "row", "network", "conv", "unrow", "unkey"},
          team : Active]
Sends == [at : {"idle", "ensure", "tag", "store", "seal", "publish"},
          conv : Active, team : Active, key : Active]

LEMMA InitType == Init => TypeOK
  <1> SUFFICES ASSUME Init PROVE TypeOK
    OBVIOUS
  <1>1. /\ keysFile \in Files /\ op \in Ops /\ send \in Sends
        /\ op.at = "idle" /\ send.at = "idle"
    BY DEF Init, Files, Ops, Sends, Idle, Mute, Active
  <1> QED
    BY <1>1 DEF Init, TypeOK, Files, Ops, Sends, Active

LEMMA ActivateType ==
  ASSUME TypeOK, NEW t \in Active, Activate(t)
  PROVE  activeTeam' \in Active /\ stale' \subseteq {"op", "send", "event"}
  BY DEF Activate, UnderWay, TypeOK

LEMMA SaveType ==
  ASSUME TypeOK, NEW keys \in SUBSET Team, NEW t \in Active, Saved(keys, t) \/ SaveFails
  PROVE  keysFile' \in Files /\ saves' \in {"good", "failed", "repaired"}
  BY DEF Saved, SaveFails, Whole, Torn, TypeOK, Files, Active

LEMMA GoesType ==
  ASSUME TypeOK, op.at # "idle",
         NEW at \in {"activate", "row", "network", "conv", "unkey"}, Goes(at) \/ op' = Idle
  PROVE  op' \in Ops /\ (op'.at # "idle" => op'.team \in Team)
  BY DEF Goes, Idle, TypeOK, Ops, Active

LEMMA ForgottenType ==
  ASSUME TypeOK, Forgotten, keysFile' \in Files PROVE TypeOK'
  <1>1. op' \in Ops /\ send' \in Sends /\ op'.at = "idle" /\ send'.at = "idle"
    BY DEF Forgotten, Ops, Sends, Idle, Mute, Active
  <1>2. starts' \in Nat
    BY DEF Forgotten, TypeOK
  <1> QED
    BY <1>1, <1>2 DEF TypeOK, Forgotten, Files, Ops, Sends, Active

LEMMA EndType == ASSUME TypeOK, Kill \/ Shutdown PROVE TypeOK'
  <1>1. keysFile' \in Files /\ Forgotten
    BY DEF Kill, Shutdown, Whole, Torn, TypeOK, Files, Active
  <1> QED
    BY <1>1, ForgottenType
LEMMA LoadType ==
  ASSUME TypeOK, LoadIdentity, isLoggedIn' \in BOOLEAN, registered' \in BOOLEAN,
         topic' \in Active \cup {NotStarted}, starts' \in Nat, ops' \in Nat, sends' \in Nat
  PROVE  TypeOK'
  <1>1. PICK keys \in SUBSET Team, t \in Active : teamKeys' = keys /\ Activate(t)
    BY DEF LoadIdentity
  <1>2. activeTeam' \in Active /\ stale' \subseteq {"op", "send", "event"}
    BY <1>1, ActivateType
  <1>3. lost' \subseteq Team /\ saves' \in {"good", "failed", "repaired"}
    BY DEF LoadIdentity, TypeOK
  <1> QED
    BY <1>1, <1>2, <1>3 DEF LoadIdentity, TypeOK, chat

LEMMA LoginType == ASSUME TypeOK, Register \/ Login PROVE TypeOK'
  <1>1. LoadIdentity /\ isLoggedIn' \in BOOLEAN /\ registered' \in BOOLEAN
    BY DEF Register, Login, TypeOK
  <1>2. starts' \in Nat /\ ops' \in Nat /\ sends' \in Nat
    BY DEF Register, Login, Begin, TypeOK, counts
  <1>3. activeTeam' \in Active
    BY <1>1 DEF LoadIdentity, Activate
  <1>4. topic' \in Active \cup {NotStarted}
    BY <1>3 DEF Register, Login, StartNetwork, TypeOK, Active
  <1> QED
    BY <1>1, <1>2, <1>4, LoadType

LEMMA BeginType ==
  ASSUME TypeOK, NEW t \in Team, JoinTeam(t) \/ LeaveTeam(t) PROVE TypeOK'
  <1>1. PICK at \in {"key", "unrow"} : BeginOp(at, t)
    BY DEF JoinTeam, LeaveTeam
  <1>2. op' \in Ops /\ op'.team \in Team
    BY <1>1 DEF BeginOp, Ops, Active
  <1>3. stale' \subseteq {"op", "send", "event"} /\ starts' \in Nat /\ ops' \in Nat /\ sends' \in Nat
    BY <1>1 DEF BeginOp, Begin, TypeOK
  <1> QED
    BY <1>1, <1>2, <1>3 DEF BeginOp, TypeOK, disk, Ops

LEMMA ConversationType ==
  ASSUME TypeOK, NEW c \in Active, NEW t \in Active, NEW isStale \in BOOLEAN,
         EnsureConversation(c, t, isStale) \/ UNCHANGED convs
  PROVE  convs' \subseteq Conversation
  BY DEF EnsureConversation, TypeOK, Conversation

LEMMA SetKeyType == ASSUME TypeOK, SetTeamKeyForTeam PROVE TypeOK'
  <1>1. op.team \in Team /\ op.team \in Active
    BY DEF SetTeamKeyForTeam, TypeOK, Active
  <1>2. teamKeys' \in SUBSET Team
    BY <1>1 DEF SetTeamKeyForTeam, TypeOK
  <1>3. activeTeam' \in Active /\ stale' \subseteq {"op", "send", "event"}
    BY <1>1, ActivateType DEF SetTeamKeyForTeam, TypeOK
  <1>4. keysFile' \in Files /\ saves' \in {"good", "failed", "repaired"}
    BY <1>2, <1>3, SaveType DEF SetTeamKeyForTeam
  <1>5. op' \in Ops /\ (op'.at # "idle" => op'.team \in Team)
    BY GoesType DEF SetTeamKeyForTeam
  <1> QED
    BY <1>2, <1>3, <1>4, <1>5 DEF SetTeamKeyForTeam, TypeOK, chat, counts, Files, Ops

LEMMA ActivateJoinedType == ASSUME TypeOK, ActivateJoined PROVE TypeOK'
  <1>1. op.team \in Team /\ op.team \in Active
    BY DEF ActivateJoined, TypeOK, Active
  <1>2. activeTeam' \in Active /\ stale' \subseteq {"op", "send", "event"}
    BY <1>1, ActivateType DEF ActivateJoined, SetActiveTeam, TypeOK
  <1>3. keysFile' \in Files /\ saves' \in {"good", "failed", "repaired"}
    BY <1>1, SaveType DEF ActivateJoined, SetActiveTeam, TypeOK, Files
  <1>4. op' \in Ops /\ (op'.at # "idle" => op'.team \in Team)
    BY GoesType DEF ActivateJoined
  <1> QED
    BY <1>2, <1>3, <1>4 DEF ActivateJoined, TypeOK, chat, counts, Files, Ops

LEMMA RowType ==
  ASSUME TypeOK, InsertTeam \/ DeleteTeam \/ NetworkStarted \/ JoinedConversation
  PROVE  TypeOK'
  <1>1. op' \in Ops /\ (op'.at # "idle" => op'.team \in Team)
    BY GoesType DEF InsertTeam, DeleteTeam, NetworkStarted, JoinedConversation
  <1>2. op.team \in Team /\ op.team \in Active
    BY DEF InsertTeam, DeleteTeam, NetworkStarted, JoinedConversation, TypeOK, Active
  <1>3. CASE InsertTeam \/ DeleteTeam
    BY <1>1, <1>2, <1>3 DEF InsertTeam, DeleteTeam, TypeOK, chat, counts, Ops
  <1>4. CASE NetworkStarted
    <2>1. topic' \in Active \cup {NotStarted}
      BY <1>4 DEF NetworkStarted, StartNetwork, TypeOK, Active
    <2> QED
      BY <1>1, <1>4, <2>1 DEF NetworkStarted, TypeOK, disk, counts, Ops
  <1>5. CASE JoinedConversation
    <2>1. activeTeam \in Active /\ ("op" \in stale) \in BOOLEAN
      BY DEF TypeOK
    <2>2. convs' \subseteq Conversation
      BY <1>2, <1>5, <2>1, ConversationType DEF JoinedConversation
    <2> QED
      BY <1>1, <1>5, <2>2 DEF JoinedConversation, TypeOK, chat, counts, Ops
  <1> QED
    BY <1>3, <1>4, <1>5

LEMMA SuccessorType ==
  ASSUME TypeOK, NEW t \in Team PROVE Successor(t) \subseteq Active
  BY DEF Successor, TypeOK, Active

LEMMA RemoveKeyType == ASSUME TypeOK, RemoveTeamKey PROVE TypeOK'
  <1>1. op.team \in Team
    BY DEF RemoveTeamKey, TypeOK
  <1>2. PICK t \in Successor(op.team) : Activate(t) /\ (Saved(teamKeys', t) \/ SaveFails)
    BY DEF RemoveTeamKey
  <1>3. t \in Active /\ teamKeys' \in SUBSET Team
    BY <1>1, <1>2, SuccessorType DEF RemoveTeamKey, TypeOK
  <1>4. activeTeam' \in Active /\ stale' \subseteq {"op", "send", "event"}
    BY <1>2, <1>3, ActivateType
  <1>5. keysFile' \in Files /\ saves' \in {"good", "failed", "repaired"}
    BY <1>2, <1>3, SaveType
  <1>6. op' \in Ops /\ op'.at = "idle"
    BY DEF RemoveTeamKey, Idle, Ops, Active
  <1> QED
    BY <1>3, <1>4, <1>5, <1>6 DEF RemoveTeamKey, TypeOK, chat, counts, Files, Ops

LEMMA SwitchType == ASSUME TypeOK, NEW t \in Team, SwitchTeam(t) PROVE TypeOK'
  <1>1. t \in Active /\ Activate(t) /\ (Saved(teamKeys, t) \/ SaveFails)
    BY DEF SwitchTeam, SetActiveTeam, Active
  <1>2. activeTeam' \in Active /\ stale' \subseteq {"op", "send", "event"}
    BY <1>1, ActivateType
  <1>3. keysFile' \in Files /\ saves' \in {"good", "failed", "repaired"}
    BY <1>1, SaveType DEF TypeOK
  <1>4. starts' \in Nat /\ ops' \in Nat /\ sends' \in Nat
    BY DEF SwitchTeam, Begin, TypeOK
  <1> QED
    BY <1>2, <1>3, <1>4 DEF SwitchTeam, TypeOK, chat, Files
\* What SendTeamChat holds, and what it and the subscriber write.
LEMMA Held ==
  ASSUME TypeOK
  PROVE  /\ send \in Sends /\ send.conv \in Active /\ send.team \in Active /\ send.key \in Active
         /\ activeTeam \in Active /\ event \in Active /\ (HasTeamKey => activeTeam \in Team)
         /\ \A c \in {"op", "send", "event"} : (c \in stale) \in BOOLEAN
  BY DEF TypeOK, Sends, HasTeamKey

LEMMA SendGoesType ==
  ASSUME TypeOK, SendTeamChat \/ EnsureSent \/ TagMessage
  PROVE  TypeOK'
  <1>1. send' \in Sends /\ send'.at # "publish"
    BY DEF SendTeamChat, EnsureSent, TagMessage, Sends, Mute, Active, TypeOK
  <1>2. convs' \subseteq Conversation
    <2>1. CASE EnsureSent
      BY <2>1, Held, ConversationType DEF EnsureSent
    <2>2. CASE SendTeamChat \/ TagMessage
      BY <2>2 DEF SendTeamChat, TagMessage, TypeOK
    <2> QED
      BY <2>1, <2>2
  <1>3. /\ stale' \subseteq {"op", "send", "event"}
        /\ starts' \in Nat /\ ops' \in Nat /\ sends' \in Nat
    BY DEF SendTeamChat, EnsureSent, TagMessage, One, TypeOK, counts
  <1> QED
    BY <1>1, <1>2, <1>3
    DEF SendTeamChat, EnsureSent, TagMessage, TypeOK, ring, counts, Sends

LEMMA StoreType == ASSUME TypeOK, StoreMessage PROVE TypeOK'
  <1>1. send' \in Sends /\ send'.at # "publish"
    BY DEF StoreMessage, Sends, Mute, Active, TypeOK
  <1>2. messages' \subseteq Message
    <2>1. HasTeamKey => [conv |-> send.conv, team |-> send.team, key |-> activeTeam,
                         stale |-> "send" \in stale] \in Message
      BY Held DEF Message
    <2>2. messages \subseteq Message
      BY DEF TypeOK
    <2> QED
      BY <2>1, <2>2 DEF StoreMessage
  <1> QED
    BY <1>1, <1>2 DEF StoreMessage, TypeOK, ring, counts, Sends

LEMMA SealType == ASSUME TypeOK, SealMessage PROVE TypeOK'
  <1>1. send' \in Sends /\ (send'.at = "publish" => send'.key \in Team)
    <2>1. CASE HasTeamKey
      <3>1. PICK x \in Sends : x = send
        BY Held
      <3>2. PICK t \in Team : t = activeTeam
        BY <2>1, Held
      <3>3. t \in Active
        BY DEF Active
      <3> QED
        BY <2>1, <3>1, <3>2, <3>3 DEF SealMessage, Sends
    <2>2. CASE ~HasTeamKey
      BY <2>2 DEF SealMessage, Sends, Mute, Active
    <2> QED
      BY <2>1, <2>2
  <1> QED
    BY <1>1 DEF SealMessage, TypeOK, ring, counts, Sends

LEMMA BroadcastType == ASSUME TypeOK, BroadcastTeam PROVE TypeOK'
  <1>1. send' \in Sends /\ send'.at = "idle"
    BY DEF BroadcastTeam, Sends, Mute, Active
  <1>2. published' \subseteq Sealed
    <2>1. published \subseteq Sealed /\ (send.at = "publish" => send.key \in Team)
      BY DEF TypeOK
    <2>2. TeamTopic \in Active
      BY Held DEF TeamTopic, Active
    <2>3. send.at = "publish" => [topic |-> TeamTopic, key |-> send.key, conv |-> send.conv,
                                  stale |-> "send" \in stale] \in Sealed
      BY <2>1, <2>2, Held DEF Sealed
    <2> QED
      BY <2>1, <2>3 DEF BroadcastTeam
  <1> QED
    BY <1>1, <1>2 DEF BroadcastTeam, TypeOK, ring, counts, Sends

LEMMA ReceiveType == ASSUME TypeOK, Consume \/ Receive PROVE TypeOK'
  <1>1. CASE Consume
    BY <1>1 DEF Consume, One, HasTeamKey, TypeOK, ring, Active
  <1>2. CASE Receive
    <2>1. messages' \subseteq Message
      <3>1. HasTeamKey => [conv |-> event, team |-> event, key |-> activeTeam,
                           stale |-> "event" \in stale] \in Message
        BY Held DEF Message
      <3>2. messages \subseteq Message
        BY DEF TypeOK
      <3> QED
        BY <1>2, <3>1, <3>2 DEF Receive
    <2>2. convs' \subseteq Conversation
      BY <1>2, Held, ConversationType DEF Receive, TypeOK
    <2> QED
      BY <1>2, <2>1, <2>2 DEF Receive, TypeOK, ring, counts, Active
  <1> QED
    BY <1>1, <1>2

LEMMA StepType == TypeOK /\ [Next]_vars => TypeOK'
  <1> SUFFICES ASSUME TypeOK, [Next]_vars PROVE TypeOK'
    OBVIOUS
  <1>1. CASE Kill \/ Shutdown
    BY <1>1, EndType
  <1>2. CASE Register \/ Login
    BY <1>2, LoginType
  <1>3. CASE Logout
    <2>1. isLoggedIn' \in BOOLEAN
      BY <1>3 DEF Logout
    <2>2. /\ UNCHANGED <<identity, teamKeys, activeTeam, topic, op, stale, saves, send, event, published>>
          /\ UNCHANGED <<registered, keysFile, lost, teams, convs, messages, starts, ops, sends>>
      BY <1>3 DEF Logout, disk, counts
    <2> QED
      BY <2>1, <2>2 DEF TypeOK
  <1>4. CASE OpStep
    BY <1>4, SetKeyType, ActivateJoinedType, RowType, RemoveKeyType DEF OpStep
  <1>5. CASE ChatStep
    BY <1>5, SendGoesType, StoreType, SealType, BroadcastType, ReceiveType DEF ChatStep
  <1>6. ASSUME NEW t \in Team, JoinTeam(t) \/ LeaveTeam(t) \/ SwitchTeam(t) PROVE TypeOK'
    BY <1>6, BeginType, SwitchType
  <1>7. CASE UNCHANGED vars
    BY <1>7 DEF vars, TypeOK
  <1> QED
    BY <1>1, <1>2, <1>3, <1>4, <1>5, <1>6, <1>7 DEF Next

\* Every value of the state is of its type, and what a message is sealed with is a
\* key (EncryptTeam fails without one), at every moment of every behaviour.
THEOREM TypeCorrect == Spec => []TypeOK
  <1>1. Init => TypeOK
    BY InitType
  <1>2. TypeOK /\ [Next]_vars => TypeOK'
    BY StepType
  <1> QED
    BY <1>1, <1>2, PTL DEF Spec
-----------------------------------------------------------------------------
(* The key ring, its file and the rows. *)

LEMMA InitRing == Init => Ring
  BY DEF Init, Ring, RowsHaveKeys, SavedAsHeld, ActiveHasKey, KeysHeld, Idle

LEMMA EndRing == ASSUME TypeOK, Ring, Kill \/ Shutdown PROVE Ring'
  <1>1. /\ keysFile'.at = "whole" => teams \subseteq keysFile'.keys \cup lost
        /\ keysFile'.at = "absent" => teams = {}
    BY DEF Kill, Shutdown, Whole, Torn, Ring, RowsHaveKeys, KeysHeld
  <1>2. /\ ~identity' /\ ~isLoggedIn' /\ teamKeys' = {} /\ activeTeam' = NoTeam
        /\ saves' = "good" /\ op'.at = "idle" /\ UNCHANGED <<lost, teams>>
    BY DEF Kill, Shutdown, Forgotten, Idle
  <1> QED
    BY <1>1, <1>2 DEF Ring, RowsHaveKeys, SavedAsHeld, ActiveHasKey, KeysHeld

LEMMA LoginRing == ASSUME TypeOK, Ring, Register \/ Login PROVE Ring'
  <1>1. PICK keys \in SUBSET Team, t \in Active :
          /\ LoadTeamKeys(keys, t)
          /\ teamKeys' = keys /\ activeTeam' = t
          /\ \/ keysFile.at = "torn" /\ lost' = lost \cup (teams \ keys) /\ saves' = "failed"
             \/ keysFile.at # "torn" /\ UNCHANGED <<lost, saves>>
    BY DEF Register, Login, LoadIdentity, Activate
  <1>2. identity' /\ UNCHANGED <<keysFile, teams, op>>
    BY DEF Register, Login, LoadIdentity, chat
  <1>3. keysFile.at \in {"absent", "torn", "whole"}
    BY DEF TypeOK
  <1>4. CASE keysFile.at = "torn"
    BY <1>1, <1>2, <1>4
    DEF LoadTeamKeys, Ring, RowsHaveKeys, SavedAsHeld, ActiveHasKey, KeysHeld
  <1>5. CASE keysFile.at = "absent"
    <2>1. keys = teamKeys /\ t = activeTeam /\ UNCHANGED <<lost, saves>>
      BY <1>1, <1>5 DEF LoadTeamKeys
    <2> QED
      BY <1>1, <1>2, <1>5, <2>1
      DEF Ring, RowsHaveKeys, SavedAsHeld, ActiveHasKey, KeysHeld
  <1>6. CASE keysFile.at = "whole"
    <2>1. /\ keys = keysFile.keys /\ UNCHANGED <<lost, saves>>
          /\ \/ t = keysFile.active /\ t \in keys
             \/ /\ keysFile.active \notin keys
                /\ IF activeTeam # NoTeam \/ keys = {} THEN t = activeTeam ELSE t \in keys
      BY <1>1, <1>6 DEF LoadTeamKeys
    <2>2. RowsHaveKeys' /\ SavedAsHeld'
      BY <1>1, <1>2, <1>6, <2>1 DEF Ring, RowsHaveKeys, SavedAsHeld
    <2>3. ActiveHasKey'
      <3> SUFFICES ASSUME saves = "good" PROVE t \in keys \/ (t = NoTeam /\ keys = {})
        BY <1>1, <2>1 DEF ActiveHasKey
      <3>1. CASE identity
        BY <1>6, <2>1, <3>1 DEF Ring, SavedAsHeld, ActiveHasKey
      <3>2. CASE ~identity
        BY <2>1, <3>2 DEF Ring, KeysHeld
      <3> QED
        BY <3>1, <3>2
    <2>4. KeysHeld'
      BY <1>1, <1>2, <1>6, <2>1 DEF Ring, RowsHaveKeys, KeysHeld
    <2> QED
      BY <2>2, <2>3, <2>4 DEF Ring
  <1> QED
    BY <1>3, <1>4, <1>5, <1>6

\* A save of what is held keeps the file in step with memory and the rows.
LEMMA SaveRing ==
  ASSUME TypeOK, Ring, identity,
         NEW keys \in SUBSET Team, NEW t \in Active,
         teams \subseteq keys \cup lost,
         saves = "good" => t \in keys \/ (t = NoTeam /\ keys = {}),
         teamKeys' = keys, activeTeam' = t, UNCHANGED <<identity, lost, teams>>,
         Saved(keys, t) \/ SaveFails
  PROVE  RowsHaveKeys' /\ SavedAsHeld' /\ ActiveHasKey'
  <1>1. CASE Saved(keys, t)
    BY <1>1 DEF Saved, Whole, RowsHaveKeys, SavedAsHeld, ActiveHasKey
  <1>2. CASE SaveFails
    BY <1>2 DEF SaveFails, Torn, Ring, RowsHaveKeys, SavedAsHeld, ActiveHasKey
  <1> QED
    BY <1>1, <1>2

LEMMA SetKeyRing == ASSUME TypeOK, Ring, SetTeamKeyForTeam PROVE Ring'
  <1>1. op.team \in Team /\ identity /\ op.team # NoTeam
    BY TeamsAssumption DEF SetTeamKeyForTeam, TypeOK, Ring, KeysHeld
  <1>2. PICK keys \in SUBSET Team : keys = teamKeys \cup {op.team}
    BY <1>1 DEF TypeOK
  <1>3. PICK t \in Active : /\ t = activeTeam'
                            /\ (activeTeam = NoTeam /\ t = op.team) \/ t = activeTeam
    BY <1>1 DEF SetTeamKeyForTeam, Activate, TypeOK, Active
  <1>4. /\ teams \subseteq keys \cup lost
        /\ saves = "good" => t \in keys \/ (t = NoTeam /\ keys = {})
    BY <1>1, <1>2, <1>3 DEF Ring, KeysHeld, ActiveHasKey, SetTeamKeyForTeam, Activate
  <1>5. RowsHaveKeys' /\ SavedAsHeld' /\ ActiveHasKey'
    BY <1>1, <1>2, <1>3, <1>4, SaveRing DEF SetTeamKeyForTeam
  <1>6. KeysHeld'
    BY <1>1, <1>2, <1>4
    DEF SetTeamKeyForTeam, Goes, Idle, Saved, Whole, Ring, KeysHeld, TypeOK
  <1> QED
    BY <1>5, <1>6 DEF Ring

LEMMA ActivateJoinedRing == ASSUME TypeOK, Ring, ActivateJoined PROVE Ring'
  <1>1. /\ op.team \in Team /\ identity /\ op.team \in teamKeys /\ op.team \in Active
        /\ teamKeys \in SUBSET Team
    BY DEF ActivateJoined, TypeOK, Ring, KeysHeld, Active
  <1>2. /\ activeTeam' = op.team /\ (Saved(teamKeys, op.team) \/ SaveFails)
        /\ UNCHANGED <<identity, isLoggedIn, teamKeys, lost, teams>>
    BY <1>1 DEF ActivateJoined, SetActiveTeam, Activate
  <1>3. RowsHaveKeys' /\ SavedAsHeld' /\ ActiveHasKey'
    BY <1>1, <1>2, SaveRing DEF Ring, KeysHeld
  <1>4. \/ op'.at = "row" /\ op'.team = op.team /\ Saved(teamKeys, op.team)
        \/ op'.at = "idle"
    BY <1>1 DEF ActivateJoined, SetActiveTeam, Goes, Idle, TypeOK
  <1>5. KeysHeld'
    BY <1>1, <1>2, <1>4 DEF Saved, Whole, Ring, KeysHeld
  <1> QED
    BY <1>3, <1>5 DEF Ring

LEMMA RowRing == ASSUME TypeOK, Ring, InsertTeam \/ DeleteTeam PROVE Ring'
  <1>1. identity
    BY DEF InsertTeam, DeleteTeam, Ring, KeysHeld
  <1>2. CASE InsertTeam
    <2>1. /\ teams' = teams \/ teams' = teams \cup {op.team}
          /\ op'.at \in {"idle", "network"}
          /\ keysFile.at = "whole" /\ op.team \in keysFile.keys /\ op.team \in teamKeys
      BY <1>2 DEF InsertTeam, Goes, Idle, TypeOK, Ring, KeysHeld
    <2> QED
      BY <1>1, <1>2, <2>1
      DEF InsertTeam, Ring, RowsHaveKeys, SavedAsHeld, ActiveHasKey, KeysHeld
  <1>3. CASE DeleteTeam
    <2>1. \/ op'.at = "idle" /\ teams' = teams
          \/ op'.at = "unkey" /\ teams' = teams \ {op.team} /\ op'.team = op.team
      BY <1>3 DEF DeleteTeam, Goes, Idle, TypeOK
    <2> QED
      BY <1>1, <1>3, <2>1
      DEF DeleteTeam, Ring, RowsHaveKeys, SavedAsHeld, ActiveHasKey, KeysHeld
  <1> QED
    BY <1>2, <1>3

LEMMA RemoveKeyRing == ASSUME TypeOK, Ring, RemoveTeamKey PROVE Ring'
  <1>1. op.team \in Team /\ identity /\ op.team \notin teams
    BY DEF RemoveTeamKey, TypeOK, Ring, KeysHeld
  <1>2. PICK keys \in SUBSET Team : keys = teamKeys \ {op.team}
    BY DEF TypeOK
  <1>3. PICK t \in Successor(op.team) :
          /\ activeTeam' = t /\ (Saved(teamKeys', t) \/ SaveFails)
    BY DEF RemoveTeamKey, Activate
  <1>4. t \in Active
    BY <1>1, <1>3, SuccessorType
  <1>5. /\ teams \subseteq keys \cup lost
        /\ saves = "good" => t \in keys \/ (t = NoTeam /\ keys = {})
    BY <1>1, <1>2, <1>3, TeamsAssumption DEF Ring, KeysHeld, ActiveHasKey, Successor
  <1>6. /\ teamKeys' = keys /\ op' = Idle
        /\ UNCHANGED <<identity, isLoggedIn, lost, teams>>
    BY <1>2 DEF RemoveTeamKey
  <1>7. RowsHaveKeys' /\ SavedAsHeld' /\ ActiveHasKey'
    BY <1>1, <1>2, <1>3, <1>4, <1>5, <1>6, SaveRing
  <1>8. KeysHeld'
    BY <1>1, <1>5, <1>6 DEF Idle, Ring, KeysHeld
  <1> QED
    BY <1>7, <1>8 DEF Ring

LEMMA SwitchRing == ASSUME TypeOK, Ring, NEW t \in Team, SwitchTeam(t) PROVE Ring'
  <1>1. /\ t \in Active /\ t \in teamKeys /\ identity /\ teamKeys \in SUBSET Team
        /\ teams \subseteq teamKeys \cup lost
    BY DEF SwitchTeam, Ring, KeysHeld, TypeOK, Active
  <1>2. /\ activeTeam' = t /\ (Saved(teamKeys, t) \/ SaveFails)
        /\ UNCHANGED <<identity, isLoggedIn, teamKeys, lost, teams, op>>
    BY DEF SwitchTeam, SetActiveTeam, Activate
  <1>3. RowsHaveKeys' /\ SavedAsHeld' /\ ActiveHasKey'
    BY <1>1, <1>2, SaveRing
  <1>4. op.at = "idle"
    BY DEF SwitchTeam
  <1>5. KeysHeld'
    BY <1>1, <1>2, <1>4 DEF Ring, KeysHeld
  <1> QED
    BY <1>3, <1>5 DEF Ring

LEMMA StillRing ==
  ASSUME TypeOK, Ring, RingStill, UNCHANGED op \/ op'.at \in {"idle", "conv"}, identity \/ UNCHANGED op
  PROVE  Ring'
  BY DEF RingStill, Ring, RowsHaveKeys, SavedAsHeld, ActiveHasKey, KeysHeld

LEMMA BeginRing == ASSUME TypeOK, Ring, NEW t \in Team, JoinTeam(t) \/ LeaveTeam(t) PROVE Ring'
  <1>1. PICK at \in {"key", "unrow"} : BeginOp(at, t)
    BY DEF JoinTeam, LeaveTeam
  <1>2. RingStill /\ op'.at \in {"key", "unrow"} /\ identity
    BY <1>1 DEF BeginOp, RingStill, disk, Ring, KeysHeld
  <1> QED
    BY <1>2 DEF RingStill, Ring, RowsHaveKeys, SavedAsHeld, ActiveHasKey, KeysHeld

LEMMA StepRing == TypeOK /\ Ring /\ [Next]_vars => Ring'
  <1> SUFFICES ASSUME TypeOK, Ring, [Next]_vars PROVE Ring'
    OBVIOUS
  <1>1. CASE Kill \/ Shutdown
    BY <1>1, EndRing
  <1>2. CASE Register \/ Login
    BY <1>2, LoginRing
  <1>3. CASE Logout
    BY <1>3 DEF Logout, disk, Ring, RowsHaveKeys, SavedAsHeld, ActiveHasKey, KeysHeld
  <1>4. CASE SetTeamKeyForTeam \/ ActivateJoined \/ InsertTeam \/ DeleteTeam \/ RemoveTeamKey
    BY <1>4, SetKeyRing, ActivateJoinedRing, RowRing, RemoveKeyRing
  <1>5. CASE NetworkStarted \/ JoinedConversation
    <2>1. RingStill /\ identity /\ op'.at \in {"idle", "conv"}
      BY <1>5 DEF NetworkStarted, JoinedConversation, RingStill, disk, Goes, Idle, TypeOK,
                  Ring, KeysHeld
    <2> QED
      BY <2>1, StillRing
  <1>6. CASE ChatStep
    <2>1. RingStill /\ UNCHANGED op
      BY <1>6 DEF ChatStep, SendTeamChat, EnsureSent, TagMessage, StoreMessage, SealMessage,
                  BroadcastTeam, Consume, Receive, RingStill, ring
    <2> QED
      BY <2>1, StillRing
  <1>7. ASSUME NEW t \in Team, JoinTeam(t) \/ LeaveTeam(t) \/ SwitchTeam(t) PROVE Ring'
    BY <1>7, BeginRing, SwitchRing
  <1>8. CASE UNCHANGED vars
    BY <1>8, StillRing DEF vars, RingStill
  <1> QED
    BY <1>1, <1>2, <1>3, <1>4, <1>5, <1>6, <1>7, <1>8 DEF Next, OpStep

LEMMA RingInvariant == Spec => [](TypeOK /\ Ring)
  <1>1. Init => TypeOK /\ Ring
    BY InitType, InitRing
  <1>2. TypeOK /\ Ring /\ [Next]_vars => (TypeOK /\ Ring)'
    BY StepType, StepRing
  <1> QED
    BY <1>1, <1>2, PTL DEF Spec

\* JoinTeamWithName and LeaveTeam, killed anywhere, never leave a row of the table
\* teams without its key on disk.
THEOREM RowsCorrect == Spec => []RowsHaveKeys
  <1>1. TypeOK /\ Ring => RowsHaveKeys
    BY DEF Ring
  <1> QED
    BY <1>1, RingInvariant, PTL

\* RemoveTeamKey, SetTeamKeyForTeam and loadTeamKeys always leave an active team
\* whose key is held, if there is one and the saves have succeeded.
THEOREM ActiveCorrect == Spec => []ActiveHasKey
  <1>1. TypeOK /\ Ring => ActiveHasKey
    BY DEF Ring
  <1> QED
    BY <1>1, RingInvariant, PTL

\* Every operation on the key ring that succeeded is on disk.
THEOREM SavedCorrect == Spec => []SavedAsHeld
  <1>1. TypeOK /\ Ring => SavedAsHeld
    BY DEF Ring
  <1> QED
    BY <1>1, RingInvariant, PTL
-----------------------------------------------------------------------------
(* The messages. *)

LEMMA InitSteady == Init => Steady /\ Unmixed
  BY DEF Init, Steady, Unmixed, Idle, Mute

\* A change of the active team marks what is under way, whatever else the step does.
LEMMA ActivateSteady ==
  ASSUME TypeOK, Steady, NEW t \in Active, Activate(t), UNCHANGED <<send, event>>
  PROVE  /\ send.at # "idle" /\ "send" \notin stale' =>
              /\ send.conv = activeTeam'
              /\ send.at \in {"store", "seal", "publish"} => send.team = activeTeam'
              /\ send.at = "publish" => send.key = activeTeam'
         /\ event # NoTeam /\ "event" \notin stale' => event = activeTeam'
         /\ op.at \in {"row", "network", "conv"} /\ "op" \notin stale' => op.team = activeTeam'
  <1>1. CASE t = activeTeam
    BY <1>1 DEF Activate, Steady
  <1>2. CASE t # activeTeam
    BY <1>2 DEF Activate, UnderWay
  <1> QED
    BY <1>1, <1>2

LEMMA LoginSteady ==
  ASSUME TypeOK, Steady, Register \/ Login \/ \E t \in Team : SwitchTeam(t) PROVE Steady'
  <1>1. PICK t \in Active : Activate(t)
    BY DEF Register, Login, LoadIdentity, SwitchTeam, SetActiveTeam, Active
  <1>2. UNCHANGED <<op, send, event>>
    BY DEF Register, Login, LoadIdentity, SwitchTeam, chat
  <1> QED
    BY <1>1, <1>2, ActivateSteady DEF Steady

LEMMA OpSteady == ASSUME TypeOK, Steady, OpStep PROVE Steady'
  <1>1. UNCHANGED <<send, event>>
    BY DEF OpStep, SetTeamKeyForTeam, ActivateJoined, InsertTeam, NetworkStarted,
           JoinedConversation, DeleteTeam, RemoveTeamKey, chat
  <1>2. CASE SetTeamKeyForTeam \/ RemoveTeamKey
    <2>1. PICK t \in Active : Activate(t)
      BY <1>2, SuccessorType DEF SetTeamKeyForTeam, RemoveTeamKey, Activate, TypeOK, Active
    <2>2. op'.at \in {"idle", "activate"}
      BY <1>2 DEF SetTeamKeyForTeam, RemoveTeamKey, Goes, Idle, TypeOK
    <2> QED
      BY <1>1, <2>1, <2>2, ActivateSteady DEF Steady
  <1>3. CASE ActivateJoined
    <2>1. PICK t \in Active : Activate(t)
      BY <1>3 DEF ActivateJoined, SetActiveTeam, Activate, TypeOK, Active
    <2>2. op'.at = "idle" \/ (op'.team = op.team /\ activeTeam' = op.team)
      BY <1>3 DEF ActivateJoined, SetActiveTeam, Activate, Goes, Idle, TypeOK
    <2> QED
      BY <1>1, <2>1, <2>2, ActivateSteady DEF Steady
  <1>4. CASE InsertTeam \/ NetworkStarted \/ JoinedConversation \/ DeleteTeam
    <2>1. UNCHANGED <<activeTeam, stale>>
      BY <1>4 DEF InsertTeam, NetworkStarted, JoinedConversation, DeleteTeam
    <2>2. CASE InsertTeam
      BY <1>1, <2>1, <2>2 DEF InsertTeam, Goes, Idle, Steady, TypeOK
    <2>3. CASE NetworkStarted \/ JoinedConversation \/ DeleteTeam
      BY <1>1, <2>1, <2>3
      DEF NetworkStarted, JoinedConversation, DeleteTeam, Goes, Idle, Steady, TypeOK
    <2> QED
      BY <1>4, <2>2, <2>3
  <1> QED
    BY <1>2, <1>3, <1>4 DEF OpStep

LEMMA ChatSteady == ASSUME TypeOK, Steady, ChatStep PROVE Steady'
  <1>1. UNCHANGED <<activeTeam, op>>
    BY DEF ChatStep, SendTeamChat, EnsureSent, TagMessage, StoreMessage, SealMessage,
           BroadcastTeam, Consume, Receive, ring
  <1>2. CASE SendTeamChat
    BY <1>1, <1>2 DEF SendTeamChat, Mute, Steady
  <1>3. CASE EnsureSent \/ TagMessage
    BY <1>1, <1>3 DEF EnsureSent, TagMessage, Steady, TypeOK
  <1>4. CASE StoreMessage \/ SealMessage \/ BroadcastTeam
    <2>1. UNCHANGED <<event, stale>>
      BY <1>4 DEF StoreMessage, SealMessage, BroadcastTeam
    <2>2. \/ send'.at = "idle"
          \/ send.at = "store" /\ send' = [send EXCEPT !.at = "seal"]
          \/ send.at = "seal" /\ send' = [send EXCEPT !.at = "publish", !.key = activeTeam]
      BY <1>4 DEF StoreMessage, SealMessage, BroadcastTeam, Mute
    <2>3. send \in Sends
      BY Held
    <2> QED
      BY <1>1, <2>1, <2>2, <2>3 DEF Steady, Sends
  <1>5. CASE Consume \/ Receive
    BY <1>1, <1>5 DEF Consume, Receive, Steady
  <1> QED
    BY <1>2, <1>3, <1>4, <1>5 DEF ChatStep

LEMMA StepSteady == TypeOK /\ Steady /\ [Next]_vars => Steady'
  <1> SUFFICES ASSUME TypeOK, Steady, [Next]_vars PROVE Steady'
    OBVIOUS
  <1>1. CASE Kill \/ Shutdown
    BY <1>1 DEF Kill, Shutdown, Forgotten, Idle, Mute, Steady
  <1>2. CASE Register \/ Login \/ \E t \in Team : SwitchTeam(t)
    BY <1>2, LoginSteady
  <1>3. CASE Logout
    BY <1>3 DEF Logout, Steady
  <1>4. CASE OpStep \/ ChatStep
    BY <1>4, OpSteady, ChatSteady
  <1>5. ASSUME NEW t \in Team, JoinTeam(t) \/ LeaveTeam(t) PROVE Steady'
    BY <1>5 DEF JoinTeam, LeaveTeam, BeginOp, Steady
  <1>6. CASE UNCHANGED vars
    BY <1>6 DEF vars, Steady
  <1> QED
    BY <1>1, <1>2, <1>3, <1>4, <1>5, <1>6 DEF Next

LEMMA RowUnmixed ==
  ASSUME NEW c, NEW t, NEW isStale, ~isStale => c = t,
         \A row \in convs : row.stale \/ row.conv = row.team,
         EnsureConversation(c, t, isStale) \/ UNCHANGED convs
  PROVE  \A row \in convs' : row.stale \/ row.conv = row.team
  BY DEF EnsureConversation

LEMMA MessageUnmixed ==
  ASSUME NEW c, NEW t, NEW k, NEW isStale, ~isStale => c = t /\ k = t,
         \A m \in messages : m.stale \/ (m.conv = m.team /\ m.key = m.team),
         \/ messages' = messages \cup {[conv |-> c, team |-> t, key |-> k, stale |-> isStale]}
         \/ UNCHANGED messages
  PROVE  \A m \in messages' : m.stale \/ (m.conv = m.team /\ m.key = m.team)
  OBVIOUS

LEMMA PublishUnmixed ==
  ASSUME NEW topicOf, NEW k, NEW c, NEW isStale,
         ~isStale => topicOf \in {c, NoTeam} /\ k = c,
         \A m \in published : m.stale \/ (m.topic \in {m.conv, NoTeam} /\ m.key = m.conv),
         \/ published' = published \cup {[topic |-> topicOf, key |-> k, conv |-> c, stale |-> isStale]}
         \/ UNCHANGED published
  PROVE  \A m \in published' : m.stale \/ (m.topic \in {m.conv, NoTeam} /\ m.key = m.conv)
  OBVIOUS

\* Every write of the three tables is of one team, or is marked.
LEMMA StepUnmixed == TypeOK /\ Steady /\ Unmixed /\ [Next]_vars => Unmixed'
  <1> SUFFICES ASSUME TypeOK, Steady, Unmixed, [Next]_vars PROVE Unmixed'
    OBVIOUS
  <1>1. CASE UNCHANGED <<messages, published, convs>>
    BY <1>1 DEF Unmixed
  <1>2. CASE JoinedConversation
    <2>1. "op" \notin stale => op.team = activeTeam
      BY <1>2 DEF JoinedConversation, Steady
    <2>2. \A row \in convs' : row.stale \/ row.conv = row.team
      BY <1>2, <2>1, RowUnmixed DEF JoinedConversation, Unmixed
    <2> QED
      BY <1>2, <2>2 DEF JoinedConversation, chat, Unmixed
  <1>3. CASE EnsureSent
    <2>1. "send" \notin stale => send.conv = activeTeam
      BY <1>3 DEF EnsureSent, Steady
    <2>2. \A row \in convs' : row.stale \/ row.conv = row.team
      BY <1>3, <2>1, RowUnmixed DEF EnsureSent, Unmixed
    <2> QED
      BY <1>3, <2>2 DEF EnsureSent, Unmixed
  <1>4. CASE StoreMessage
    <2>1. "send" \notin stale => send.conv = activeTeam /\ send.team = activeTeam
      BY <1>4 DEF StoreMessage, Steady
    <2>2. \A m \in messages' : m.stale \/ (m.conv = m.team /\ m.key = m.team)
      <3>1. \/ messages' = messages \cup {[conv |-> send.conv, team |-> send.team,
                                          key |-> activeTeam, stale |-> "send" \in stale]}
            \/ UNCHANGED messages
        BY <1>4 DEF StoreMessage
      <3>2. \A m \in messages : m.stale \/ (m.conv = m.team /\ m.key = m.team)
        BY DEF Unmixed
      <3> QED
        BY <2>1, <3>1, <3>2, MessageUnmixed, Zenon
    <2> QED
      BY <1>4, <2>2 DEF StoreMessage, Unmixed
  <1>5. CASE BroadcastTeam
    <2>1. "send" \notin stale => send.conv = activeTeam /\ send.key = activeTeam
      BY <1>5 DEF BroadcastTeam, Steady
    <2>2. TeamTopic \in {activeTeam, NoTeam}
      BY DEF TeamTopic
    <2>3. \A m \in published' : m.stale \/ (m.topic \in {m.conv, NoTeam} /\ m.key = m.conv)
      <3>1. \/ published' = published \cup {[topic |-> TeamTopic, key |-> send.key,
                                            conv |-> send.conv, stale |-> "send" \in stale]}
            \/ UNCHANGED published
        BY <1>5 DEF BroadcastTeam
      <3>2. \A m \in published : m.stale \/ (m.topic \in {m.conv, NoTeam} /\ m.key = m.conv)
        BY DEF Unmixed
      <3>3. "send" \notin stale => TeamTopic \in {send.conv, NoTeam} /\ send.key = send.conv
        BY <2>1, <2>2
      <3> QED
        BY <3>1, <3>2, <3>3, PublishUnmixed, Zenon
    <2> QED
      BY <1>5, <2>3 DEF BroadcastTeam, Unmixed
  <1>6. CASE Receive
    <2>1. "event" \notin stale => event = activeTeam
      BY <1>6 DEF Receive, Steady
    <2>2. \A m \in messages' : m.stale \/ (m.conv = m.team /\ m.key = m.team)
      BY <1>6, <2>1, MessageUnmixed DEF Receive, Unmixed
    <2>3. \A row \in convs' : row.stale \/ row.conv = row.team
      BY <1>6, RowUnmixed DEF Receive, Unmixed
    <2> QED
      BY <1>6, <2>2, <2>3 DEF Receive, Unmixed
  <1> QED
    BY <1>1, <1>2, <1>3, <1>4, <1>5, <1>6
    DEF Next, Kill, Shutdown, Forgotten, Register, Login, LoadIdentity, Logout, OpStep, ChatStep, SetTeamKeyForTeam,
        ActivateJoined, InsertTeam, NetworkStarted, DeleteTeam, RemoveTeamKey, SendTeamChat,
        TagMessage, SealMessage, Consume, JoinTeam, LeaveTeam, BeginOp, SwitchTeam, disk, chat,
        vars

\* SendTeamChat, the subscriber of received messages and ensureConversation never mix
\* two teams, unless the active team changes under them.
THEOREM MessagesCorrect == Spec => []Unmixed
  <1>1. Init => TypeOK /\ Steady /\ Unmixed
    BY InitType, InitSteady
  <1>2. TypeOK /\ Steady /\ Unmixed /\ [Next]_vars => (TypeOK /\ Steady /\ Unmixed)'
    BY StepType, StepSteady, StepUnmixed
  <1> QED
    BY <1>1, <1>2, PTL DEF Spec
=============================================================================
