------------------------------ MODULE Notices ------------------------------
(***************************************************************************)
(* Notifications (internal/notify) and the Slack client (internal/slack).  *)
(*                                                                         *)
(* A notification goes over the channel that is configured when it is      *)
(* read, and its outcome is logged after the post.  A post to a webhook    *)
(* may arrive although its answer is lost.  The channel "slack" of the     *)
(* preferences posts nothing, its notices are marked as sent all the same; *)
(* the Slack client serves renewal alerts only, and is replaced while they *)
(* are being sent.                                                         *)
(*                                                                         *)
(* The types a user enables and the digest are left out: what sends never  *)
(* reads them.  So are the text and the priority of a message.             *)
(***************************************************************************)
EXTENDS Integers, FiniteSets

CONSTANTS
    Urls,            \* addresses of webhooks
    NoUrl,           \* the empty address
    Senders,         \* goroutines that serve calls
    MaxNotices       \* bound: notices sent

ASSUME NoticesAssumption == NoUrl \notin Urls /\ MaxNotices \in Nat

VARIABLES
    prefs,           \* table notification_preferences, the column webhook_url
    sender,          \* what each goroutine is doing
    noticeLog,       \* table notification_log
    posted,          \* history: the notices that arrived, and where
    slack            \* the server's client: its address and whether it has sent

noticeVars == <<prefs, sender, noticeLog, posted, slack>>

Channels == {"webhook", "slack"}
NoPreference == "absent"
NotSending == [pc |-> "idle", channel |-> "webhook", url |-> NoUrl, notice |-> 0]
Notice == [notice : Nat, channel : Channels, url : Urls \cup {NoUrl},
           status : {"sent", "failed"}]

NewClient(url) == [url |-> url, sent |-> FALSE]
Enabled(client) == client.url # NoUrl

NoticeInit ==
    /\ prefs = [c \in Channels |-> NoPreference]
    /\ sender = [s \in Senders |-> NotSending]
    /\ noticeLog = {}
    /\ posted = {}
    /\ slack \in {NewClient(url) : url \in Urls \cup {NoUrl}}

\* INSERT ... ON CONFLICT(user_id, channel) DO UPDATE, and its SELECT.
UpsertPreference(channel, url) == prefs' = [prefs EXCEPT ![channel] = url]
StoredPreference(channel) == prefs[channel]

\* A webhook needs an address.
SetPreferences(channel, url) ==
    /\ channel = "webhook" => url # NoUrl
    /\ UpsertPreference(channel, url)

handleSetPreferences ==
    /\ \E channel \in Channels, url \in Urls \cup {NoUrl} : SetPreferences(channel, url)
    /\ UNCHANGED <<sender, noticeLog, posted, slack>>

\* The row of the webhook if there is one, else that of Slack, else a webhook
\* without an address.
GetPreferences ==
    LET webhook == StoredPreference("webhook")
        slackRow == StoredPreference("slack")
    IN
    CASE webhook # NoPreference -> [channel |-> "webhook", url |-> webhook]
      [] webhook = NoPreference /\ slackRow # NoPreference ->
            [channel |-> "slack", url |-> slackRow]
      [] OTHER -> [channel |-> "webhook", url |-> NoUrl]

\* SendNotification reads the preferences.
handleSendNotification(s) ==
    LET n == Cardinality({p.notice : p \in noticeLog \cup posted})
             + Cardinality({o \in Senders : sender[o] # NotSending}) IN
    /\ sender[s] = NotSending /\ n < MaxNotices
    /\ \E notice \in 1 .. MaxNotices :
          /\ \A p \in noticeLog \cup posted : p.notice # notice
          /\ \A o \in Senders : sender[o].notice # notice
          /\ sender' = [sender EXCEPT ![s] = [pc |-> "send", notice |-> notice,
                                              channel |-> GetPreferences.channel,
                                              url |-> GetPreferences.url]]
    /\ UNCHANGED <<prefs, noticeLog, posted, slack>>

Failed(s) == sender' = [sender EXCEPT ![s].pc = "failed"]

\* sendWebhook: what arrives may be answered with an error, or not at all.
sendWebhook(s) ==
    \/ /\ posted' = posted \cup {[notice |-> sender[s].notice, url |-> sender[s].url]}
       /\ sender' = [sender EXCEPT ![s].pc = "sent"] \/ Failed(s)
    \/ Failed(s) /\ UNCHANGED posted

SendNotification(s) ==
    /\ sender[s].pc = "send"
    /\ \/ sender[s].channel = "webhook" /\ sender[s].url # NoUrl /\ sendWebhook(s)
       \/ /\ sender[s].channel = "webhook" /\ sender[s].url = NoUrl
          /\ Failed(s) /\ UNCHANGED posted
       \/ /\ sender[s].channel = "slack"
          /\ sender' = [sender EXCEPT ![s].pc = "sent"] /\ UNCHANGED posted
    /\ UNCHANGED <<prefs, noticeLog, slack>>

\* The log follows; an error there is passed over.
LogNotification(s) ==
    /\ sender[s].pc \in {"sent", "failed"}
    /\ \/ noticeLog' = noticeLog \cup
              {[notice |-> sender[s].notice, channel |-> sender[s].channel,
                url |-> sender[s].url, status |-> sender[s].pc]}
       \/ UNCHANGED noticeLog
    /\ sender' = [sender EXCEPT ![s] = NotSending]
    /\ UNCHANGED <<prefs, posted, slack>>

handleConfigureSlack(url) ==
    /\ slack' = NewClient(url)
    /\ UNCHANGED <<prefs, sender, noticeLog, posted>>

\* Send of the Slack client, for a renewal alert: 2xx or nothing.  It
\* returns at once while the client is not enabled.
Send ==
    /\ Enabled(slack)
    /\ slack' = [slack EXCEPT !.sent = TRUE]
    /\ UNCHANGED <<prefs, sender, noticeLog, posted>>

handleSlackStatus == [configured |-> Enabled(slack), sent |-> slack.sent]

NoticeNext ==
    \/ handleSetPreferences
    \/ \E s \in Senders : \/ handleSendNotification(s)
                          \/ SendNotification(s)
                          \/ LogNotification(s)
    \/ \E url \in Urls \cup {NoUrl} : handleConfigureSlack(url)
    \/ Send

NoticeSpec == NoticeInit /\ [][NoticeNext]_noticeVars

-----------------------------------------------------------------------------

NoticeTypeOK ==
    /\ prefs \in [Channels -> Urls \cup {NoUrl, NoPreference}]
    /\ noticeLog \subseteq Notice
    /\ slack \in [url : Urls \cup {NoUrl}, sent : BOOLEAN]
    /\ handleSlackStatus.sent => handleSlackStatus.configured
    /\ \A s \in Senders : sender[s].pc \in {"idle", "send", "sent", "failed"}

(***************************************************************************)
(* The log of notices can be believed: one it calls sent over a webhook    *)
(* has arrived at the address that was configured when it was read, and    *)
(* no notice is logged or posted twice, whatever is configured meanwhile.  *)
(***************************************************************************)
NoticesAreHonest ==
    /\ \A n \in noticeLog :
          n.status = "sent" /\ n.channel = "webhook" =>
              [notice |-> n.notice, url |-> n.url] \in posted
    /\ \A n, m \in noticeLog : n.notice = m.notice => n = m
    /\ \A n, m \in posted : n.notice = m.notice => n = m
=============================================================================
