------------------------------- MODULE Teams -------------------------------
(***************************************************************************)
(* The teams of one daemon: the key ring (internal/core/crypto), the rows  *)
(* and conversations of its teams (internal/core/db), the operations on    *)
(* them (internal/app/app.go), the topic of the network, and the messages  *)
(* that are sent and received while teams are joined, left and switched.   *)
(*                                                                         *)
(* A team stands for its UUID, its key, its conversation and its topic,    *)
(* which all derive from the team's secret; NoTeam stands for the empty    *)
(* UUID.  One operation on the membership runs at a time, as the front end *)
(* issues them, with one call of SendTeamChat, one received message, and   *)
(* Login beside it; each reads the active team wherever the code does.     *)
(***************************************************************************)
EXTENDS Naturals

CONSTANTS
  Team,         \* the teams whose secret the user knows
  NoTeam,       \* no active team
  NotStarted,   \* the network has not been started
  MaxOps,       \* joins, leaves, switches and logins
  MaxMessages,  \* messages sent and received
  MaxStarts     \* starts of the daemon

ASSUME TeamsAssumption ==
  /\ NoTeam \notin Team
  /\ NotStarted \notin Team \cup {NoTeam}
  /\ MaxOps \in Nat /\ MaxMessages \in Nat /\ MaxStarts \in Nat

Active == Team \cup {NoTeam}

VARIABLES
  starts,     \* of MaxStarts
  registered, \* there is an identity file
  identity,   \* LoadIdentity has succeeded: there is a master key
  isLoggedIn,
  teamKeys,   \* the key ring in memory
  activeTeam,
  keysFile,   \* .parade_teams
  saves,      \* how the saves of the key ring have gone since the start
  lost,       \* teams whose key was in a file that was torn and then loaded
  teams,      \* the table teams
  convs,      \* the table conversations
  topic,      \* the team whose topic the network has joined
  op,         \* the operation on the membership: where it is, and its team
  send,       \* SendTeamChat: where it is, its conversation, team_id and key
  event,      \* a received message that waits for its subscriber
  stale,      \* which of op, send and event have seen the active team change
  messages,   \* the table messages
  published,  \* what was published to the topic
  ops, sends  \* of MaxOps and MaxMessages

disk    == <<registered, keysFile, lost, teams, convs, messages>>
counts  == <<starts, ops, sends>>
chat    == <<send, event, messages, published>>
vars    == <<starts, registered, identity, isLoggedIn, teamKeys, activeTeam, keysFile, saves,
             lost, teams, convs, topic, op, send, event, stale, messages, published, ops, sends>>

Idle == [at |-> "idle", team |-> NoTeam]
Mute == [at |-> "idle", conv |-> NoTeam, team |-> NoTeam, key |-> NoTeam]

Conversation == [conv : Active, team : Active, stale : BOOLEAN]
Message == [conv : Active, team : Active, key : Team, stale : BOOLEAN]
Sealed  == [topic : Active, key : Team, conv : Active, stale : BOOLEAN]

TypeOK ==
  /\ registered \in BOOLEAN /\ identity \in BOOLEAN /\ isLoggedIn \in BOOLEAN
  /\ teamKeys \subseteq Team /\ activeTeam \in Active
  /\ keysFile \in [at : {"absent", "torn", "whole"}, keys : SUBSET Team, active : Active]
  /\ saves \in {"good", "failed", "repaired"} /\ lost \subseteq Team
  /\ teams \subseteq Team /\ convs \subseteq Conversation
  /\ topic \in Active \cup {NotStarted}
  /\ op \in [at : {"idle", "key", "activate", "row", "network", "conv", "unrow", "unkey"},
             team : Active]
  /\ op.at # "idle" => op.team \in Team
  /\ send \in [at : {"idle", "ensure", "tag", "store", "seal", "publish"},
               conv : Active, team : Active, key : Active]
  /\ send.at = "publish" => send.key \in Team
  /\ event \in Active /\ stale \subseteq {"op", "send", "event"}
  /\ messages \subseteq Message /\ published \subseteq Sealed
  /\ starts \in Nat /\ ops \in Nat /\ sends \in Nat
-----------------------------------------------------------------------------
(* The key ring. *)

Whole(keys, t) == [at |-> "whole", keys |-> keys, active |-> t]
Torn           == [at |-> "torn", keys |-> {}, active |-> NoTeam]

\* What SaveTeamKeys does with a key ring: it is written, or the write fails and
\* leaves the old file or a part of the new one.
Saved(keys, t) ==
  /\ keysFile' = Whole(keys, t)
  /\ saves' = IF saves = "good" THEN "good" ELSE "repaired"

SaveFails ==
  /\ keysFile' \in {keysFile, Torn}
  /\ saves' = "failed"

\* The calls that have read the active team and will read it again.
UnderWay ==
  {c \in {"op", "send", "event"} :
     /\ c = "op" => op.at \in {"row", "network", "conv"}
     /\ c = "send" => send.at # "idle"
     /\ c = "event" => event # NoTeam}

Activate(t) ==
  /\ activeTeam' = t
  /\ \/ t = activeTeam /\ UNCHANGED stale
     \/ t # activeTeam /\ stale' = stale \cup UnderWay

\* EncryptTeam and DecryptTeam have a key to use.
HasTeamKey == activeTeam \in teamKeys
-----------------------------------------------------------------------------
Init ==
  /\ starts = 0 /\ registered = FALSE /\ identity = FALSE /\ isLoggedIn = FALSE
  /\ teamKeys = {} /\ activeTeam = NoTeam
  /\ keysFile = [at |-> "absent", keys |-> {}, active |-> NoTeam]
  /\ saves = "good" /\ lost = {} /\ teams = {} /\ convs = {}
  /\ topic = NotStarted /\ op = Idle /\ send = Mute /\ event = NoTeam /\ stale = {}
  /\ messages = {} /\ published = {} /\ ops = 0 /\ sends = 0

Begin == ops < MaxOps /\ ops' = ops + 1 /\ UNCHANGED <<starts, sends>>

Forgotten ==
  /\ starts < MaxStarts /\ starts' = starts + 1
  /\ identity' = FALSE /\ isLoggedIn' = FALSE /\ teamKeys' = {} /\ activeTeam' = NoTeam
  /\ saves' = "good" /\ topic' = NotStarted /\ op' = Idle /\ send' = Mute
  /\ event' = NoTeam /\ stale' = {}
  /\ UNCHANGED <<registered, lost, teams, convs, messages, published, ops, sends>>

\* The process is killed, perhaps while it writes the key ring, and starts again.
Kill ==
  /\ \/ UNCHANGED keysFile
     \/ op.at \in {"key", "activate", "unkey"} /\ keysFile' = Torn
  /\ Forgotten

\* Shutdown saves the key ring if there is a master key to encrypt it with.
Shutdown ==
  /\ \/ ~identity /\ UNCHANGED keysFile
     \/ identity /\ keysFile' \in {Whole(teamKeys, activeTeam), keysFile, Torn}
  /\ Forgotten

\* StartWithMDNS joins the topic of the team that is active when it is first called.
StartNetwork(keys, t) ==
  \/ topic # NotStarted /\ UNCHANGED topic
  \/ topic = NotStarted /\ topic' = IF t \in keys THEN t ELSE NoTeam

\* loadTeamKeys: the key ring of a file that can be read replaces the one in
\* memory; an active team it does not name is kept, or chosen if there is none.
LoadTeamKeys(keys, t) ==
  \/ /\ keysFile.at = "whole" /\ keys = keysFile.keys
     /\ \/ keysFile.active \in keys /\ t = keysFile.active
        \/ /\ keysFile.active \notin keys
           /\ IF activeTeam # NoTeam \/ keys = {} THEN t = activeTeam ELSE t \in keys
  \/ keysFile.at # "whole" /\ keys = teamKeys /\ t = activeTeam

\* LoadIdentity: a key ring that cannot be read is a warning.
LoadIdentity ==
  /\ identity' = TRUE
  /\ \E keys \in SUBSET Team, t \in Active :
       LoadTeamKeys(keys, t) /\ teamKeys' = keys /\ Activate(t)
  /\ \/ keysFile.at = "torn" /\ lost' = lost \cup (teams \ teamKeys') /\ saves' = "failed"
     \/ keysFile.at # "torn" /\ UNCHANGED <<lost, saves>>
  /\ UNCHANGED <<keysFile, teams, convs, op, chat>>

\* RegisterIdentity writes the file, whose key is new, and loads it; the front end
\* registers only if CheckHasIdentity finds none.
Register ==
  /\ ~registered /\ registered' = TRUE
  /\ LoadIdentity
  /\ UNCHANGED <<isLoggedIn, topic, counts>>

\* A network that does not start is a warning too.
Login ==
  /\ registered /\ Begin
  /\ LoadIdentity
  /\ isLoggedIn' = TRUE
  /\ \/ teamKeys' # {} /\ StartNetwork(teamKeys', activeTeam')
     \/ UNCHANGED topic
  /\ UNCHANGED registered

Logout ==
  /\ isLoggedIn /\ isLoggedIn' = FALSE
  /\ UNCHANGED <<identity, teamKeys, activeTeam, topic, op, stale, saves, disk, send, event,
                 published, counts>>
-----------------------------------------------------------------------------
(* JoinTeamWithName, LeaveTeam and SwitchTeam, call by call. *)

Goes(at) == op' = [op EXCEPT !.at = at]

BeginOp(at, t) ==
  /\ isLoggedIn /\ op.at = "idle" /\ Begin
  /\ op' = [at |-> at, team |-> t] /\ stale' = stale \ {"op"}
  /\ UNCHANGED <<identity, isLoggedIn, teamKeys, activeTeam, saves, topic, disk, send,
                 event, published>>

\* A bug JoinTeam could have: the row is inserted before the key is stored.
JoinTeamRowFirst(t) == BeginOp("row", t)

JoinTeam(t) == BeginOp("key", t)

LeaveTeam(t) == BeginOp("unrow", t)

SetTeamKeyForTeam ==
  /\ op.at = "key"
  /\ teamKeys' = teamKeys \cup {op.team}
  /\ \/ activeTeam = NoTeam /\ Activate(op.team)
     \/ activeTeam # NoTeam /\ UNCHANGED <<activeTeam, stale>>
  /\ \/ Saved(teamKeys', activeTeam') /\ Goes("activate")
     \/ SaveFails /\ op' = Idle
  /\ UNCHANGED <<registered, identity, isLoggedIn, lost, teams, convs, topic, chat, counts>>

\* A bug SetActiveTeam could have: it does not save the key ring.
SetActiveUnsaved(t) == Activate(t) /\ UNCHANGED <<keysFile, saves>>

SetActiveTeam(t) == Activate(t) /\ Saved(teamKeys, t)

ActivateJoined ==
  /\ op.at = "activate"
  /\ \/ op.team \in teamKeys /\ SetActiveTeam(op.team) /\ Goes("row")
     \/ op.team \in teamKeys /\ Activate(op.team) /\ SaveFails /\ op' = Idle
     \/ op.team \notin teamKeys /\ op' = Idle /\ UNCHANGED <<activeTeam, stale, keysFile, saves>>
  /\ UNCHANGED <<registered, identity, isLoggedIn, teamKeys, lost, teams, convs, topic, chat,
                 counts>>

InsertTeam ==
  /\ op.at = "row"
  /\ \/ teams' = teams \cup {op.team} /\ Goes("network")
     \/ UNCHANGED teams /\ op' = Idle
  /\ UNCHANGED <<registered, identity, isLoggedIn, teamKeys, activeTeam, keysFile, saves, lost, convs,
                 topic, stale, chat, counts>>

NetworkStarted ==
  /\ op.at = "network"
  /\ \/ StartNetwork(teamKeys, activeTeam) /\ Goes("conv")
     \/ topic = NotStarted /\ UNCHANGED topic /\ op' = Idle
  /\ UNCHANGED <<identity, isLoggedIn, teamKeys, activeTeam, saves, stale, disk, send, event,
                 published, counts>>

\* ensureConversation: a row that exists keeps its team_id.
EnsureConversation(c, t, isStale) ==
  convs' = IF \E row \in convs : row.conv = c THEN convs
           ELSE convs \cup {[conv |-> c, team |-> t, stale |-> isStale]}

JoinedConversation ==
  /\ op.at = "conv"
  /\ (EnsureConversation(op.team, activeTeam, "op" \in stale) \/ UNCHANGED convs)
  /\ op' = Idle
  /\ UNCHANGED <<registered, identity, isLoggedIn, teamKeys, activeTeam, keysFile, saves, lost, teams,
                 topic, stale, chat, counts>>

DeleteTeam ==
  /\ op.at = "unrow"
  /\ \/ teams' = teams \ {op.team} /\ Goes("unkey")
     \/ UNCHANGED teams /\ op' = Idle
  /\ UNCHANGED <<registered, identity, isLoggedIn, teamKeys, activeTeam, keysFile, saves, lost, convs,
                 topic, stale, chat, counts>>

\* A bug Successor could have: the team that was left stays active.
SuccessorSame(t) == {activeTeam}

\* The team that is active when t's key is gone: any other, if t was it.
Successor(t) ==
  IF activeTeam # t THEN {activeTeam}
  ELSE IF teamKeys \subseteq {t} THEN {NoTeam} ELSE teamKeys \ {t}

RemoveTeamKey ==
  /\ op.at = "unkey"
  /\ teamKeys' = teamKeys \ {op.team}
  /\ \E t \in Successor(op.team) :
       Activate(t) /\ (Saved(teamKeys', t) \/ SaveFails)
  /\ op' = Idle
  /\ UNCHANGED <<registered, identity, isLoggedIn, lost, teams, convs, topic, chat, counts>>

SwitchTeam(t) ==
  /\ isLoggedIn /\ op.at = "idle" /\ Begin
  /\ t \in teamKeys
  /\ SetActiveTeam(t) \/ (Activate(t) /\ SaveFails)
  /\ UNCHANGED <<registered, identity, isLoggedIn, teamKeys, lost, teams, convs, topic, op, chat>>
-----------------------------------------------------------------------------
(* Messages. *)

One == sends < MaxMessages /\ sends' = sends + 1 /\ UNCHANGED <<starts, ops>>

ring == <<registered, identity, isLoggedIn, teamKeys, activeTeam, keysFile, saves, lost, teams, topic,
          op>>

\* SendTeamChat: the conversation is the active team's ...
SendTeamChat ==
  /\ isLoggedIn /\ send.at = "idle" /\ One
  /\ send' = [Mute EXCEPT !.at = "ensure", !.conv = activeTeam]
  /\ stale' = stale \ {"send"}
  /\ UNCHANGED <<ring, convs, event, messages, published>>

EnsureSent ==
  /\ send.at = "ensure"
  /\ (EnsureConversation(send.conv, activeTeam, "send" \in stale) \/ UNCHANGED convs)
  /\ send' = [send EXCEPT !.at = "tag"]
  /\ UNCHANGED <<ring, event, stale, messages, published, counts>>

TagMessage ==
  /\ send.at = "tag"
  /\ send' = [send EXCEPT !.at = "store", !.team = activeTeam]
  /\ UNCHANGED <<ring, convs, event, stale, messages, published, counts>>

\* ... and so are, each time it is read again, the key of the stored copy ...
StoreMessage ==
  /\ send.at = "store"
  /\ \/ /\ HasTeamKey
        /\ messages' = messages \cup {[conv |-> send.conv, team |-> send.team,
                                     key |-> activeTeam, stale |-> "send" \in stale]}
        /\ send' = [send EXCEPT !.at = "seal"]
     \/ send' = Mute /\ UNCHANGED messages
  /\ UNCHANGED <<ring, convs, event, stale, published, counts>>

\* A bug SealMessage could have: it seals with the key of whichever team is active,
\* held or not.
SealUnchecked ==
  /\ send.at = "seal"
  /\ send' = [send EXCEPT !.at = "publish", !.key = activeTeam]
  /\ UNCHANGED <<ring, convs, event, stale, messages, published, counts>>

\* ... the key of the copy that is sent, and the topic it is published to.
SealMessage ==
  /\ send.at = "seal"
  /\ \/ HasTeamKey /\ send' = [send EXCEPT !.at = "publish", !.key = activeTeam]
     \/ ~HasTeamKey /\ send' = Mute
  /\ UNCHANGED <<ring, convs, event, stale, messages, published, counts>>

\* A bug TeamTopic could have: it publishes to the one topic there is.
JoinedTopic == topic

\* TeamKeyHash of the active team names the topic.
TeamTopic == IF HasTeamKey THEN activeTeam ELSE NoTeam

BroadcastTeam ==
  /\ send.at = "publish"
  /\ \/ /\ topic # NotStarted /\ topic = TeamTopic
        /\ published' = published \cup {[topic |-> TeamTopic, key |-> send.key,
                                       conv |-> send.conv, stale |-> "send" \in stale]}
     \/ (topic = NotStarted \/ topic # TeamTopic) /\ UNCHANGED published
  /\ send' = Mute
  /\ UNCHANGED <<ring, convs, event, stale, messages, counts>>

\* consumeMessages: what the active team's key cannot open is dropped; the senders
\* are daemons whose own calls saw no change of the active team.
Consume ==
  /\ topic = activeTeam /\ event = NoTeam /\ HasTeamKey /\ One
  /\ event' = activeTeam
  /\ stale' = stale \ {"event"}
  /\ UNCHANGED <<ring, convs, send, messages, published>>

\* The subscriber of TopicMsgReceived encrypts it again and stores it.
Receive ==
  /\ event # NoTeam
  /\ \/ /\ HasTeamKey
        /\ \/ messages' = messages \cup {[conv |-> event, team |-> event, key |-> activeTeam,
                                        stale |-> "event" \in stale]}
           \/ UNCHANGED messages
        /\ (EnsureConversation(event, event, FALSE) \/ UNCHANGED convs)
     \/ ~HasTeamKey /\ UNCHANGED <<messages, convs>>
  /\ event' = NoTeam
  /\ UNCHANGED <<ring, send, stale, published, counts>>

OpStep ==
  \/ SetTeamKeyForTeam \/ ActivateJoined \/ InsertTeam \/ NetworkStarted
  \/ JoinedConversation \/ DeleteTeam \/ RemoveTeamKey

ChatStep ==
  \/ SendTeamChat \/ EnsureSent \/ TagMessage \/ StoreMessage \/ SealMessage \/ BroadcastTeam
  \/ Consume \/ Receive

Next ==
  \/ Kill \/ Shutdown \/ Register \/ Login \/ Logout \/ OpStep \/ ChatStep
  \/ \E t \in Team : JoinTeam(t) \/ LeaveTeam(t) \/ SwitchTeam(t)

Spec == Init /\ [][Next]_vars
-----------------------------------------------------------------------------
\* A team that is listed can be opened after a restart: at every moment the key
\* ring on disk holds the key of each row of the table teams, wherever the process
\* is killed between the two writes of a join or a leave.  Only the loss of the
\* whole file, torn by a write that was cut off and then loaded, takes keys away.
RowsHaveKeys ==
  /\ keysFile.at = "whole" => teams \subseteq keysFile.keys \cup lost
  /\ keysFile.at = "absent" => teams = {}

\* As long as every save of the key ring has succeeded, the active team is one whose
\* key is held, and there is no active team only if there is no key: chat never
\* fails for want of a key that was joined, through leaves of the active team,
\* restarts and logins.
ActiveHasKey ==
  saves = "good" => activeTeam \in teamKeys \/ (activeTeam = NoTeam /\ teamKeys = {})

\* Once there is an identity, the file holds the keys and the active team that are held
\* in memory, unless the last save failed.  A file that names a team whose key it does not
\* hold may differ in the active team: loading ignores such a name, keeps the active team
\* there is or picks one.
SavedAsHeld ==
  identity /\ saves # "failed" =>
    CASE keysFile.at = "absent" -> teamKeys = {} /\ activeTeam = NoTeam
      [] keysFile.at = "whole"  -> /\ keysFile.keys = teamKeys
                                   /\ \/ keysFile.active = activeTeam
                                      \/ keysFile.active \notin teamKeys
      [] keysFile.at = "torn"   -> FALSE

\* Teams do not mix: a message is stored, or published, under the conversation, the
\* team and the key of one team, and a conversation belongs to the team it is named
\* after, unless the active team changed while the very call that wrote it was
\* under way.
\* (TeamKeyHash is empty when a login has loaded a key ring without the key of the
\* active team: that topic is no team's.)
Unmixed ==
  /\ \A m \in messages : m.stale \/ (m.conv = m.team /\ m.key = m.team)
  /\ \A m \in published : m.stale \/ (m.topic \in {m.conv, NoTeam} /\ m.key = m.conv)
  /\ \A row \in convs : row.stale \/ row.conv = row.team
=============================================================================
