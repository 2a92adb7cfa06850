------------------------------- MODULE Alerts -------------------------------
(***************************************************************************)
(* Alerting on top of the issue store: what a call of saveEvent does once  *)
(* its statement has succeeded (EvaluateAndTriggerWebhooks: the project's  *)
(* smart rules, else the default webhooks), the goroutines that post the   *)
(* messages, and the resolve button of a Telegram message, which comes     *)
(* back through the poller.  The action Notify of IssueStore is taken      *)
(* apart here; everything else of IssueStore runs beside it.               *)
(*                                                                         *)
(* Posting a message is one attempt by a goroutine of its own.  A message  *)
(* that is lost, by an error or a crash, is one whose button is never      *)
(* pressed: the model keeps no more of it.                                 *)
(***************************************************************************)
EXTENDS IssueStore

CONSTANTS
  Rules,       \* the rows alerting_rules may hold, all enabled
  Targets,     \* Discord webhooks, and Telegram chats with their bot
  ChannelOf,   \* ChannelOf[t]: "discord" or "telegram"
  Globals,     \* what the flags of the command line may configure
  Overrides,   \* what a project may configure for itself
  NoEnv        \* the empty environment

(* What is configured somewhere: one target of each channel at most.  A    *)
(* token without a chat, or a chat without a token, is none.               *)
Config == {c \in SUBSET Targets : \A s, t \in c : ChannelOf[s] = ChannelOf[t] => s = t}

(* A rule without a target is refused when it is created (main.go:1421).   *)
Rule == [project : Projects, env : Envs, min : Nat \ {0}, window : Nat, targets : Config \ {{}}]

ASSUME AlertsAssumption ==
  /\ ChannelOf \in [Targets -> {"discord", "telegram"}]
  /\ Rules \subseteq Rule
  /\ Globals \subseteq Config /\ Overrides \subseteq Config
  /\ NoEnv \in Envs

VARIABLES
  rules,    \* the table alerting_rules
  global,   \* the targets of the command line
  override, \* override[p]: those in the row of project p
  fetched,  \* fetched[d]: whether d has run its query of the rules
  todo,     \* todo[d]: the rules of its result it has not looked at yet
  matched,  \* matched[d]: its ruleMatched
  sent,     \* the messages handed to a goroutine to post
  unread    \* history: the calls whose query of the override failed

evaluation == <<fetched, todo, matched>>
settings   == <<rules, global, override>>
alertVars  == <<settings, evaluation, sent, unread>>
allVars    == <<vars, alertVars>>

Message == [from : Deliveries, kind : {"rule", "default"}, to : Targets]

AlertInit ==
  /\ Init
  /\ rules \in SUBSET Rules
  /\ global \in Globals /\ override \in [Projects -> Overrides]
  /\ fetched = [d \in Deliveries |-> FALSE]
  /\ todo = [d \in Deliveries |-> {}]
  /\ matched = [d \in Deliveries |-> FALSE]
  /\ sent = {} /\ unread = {}

ProjectFor(d) == ProjectOf[ev[d].key]

-----------------------------------------------------------------------------
(* EvaluateAndTriggerWebhooks                                              *)

(* One query, one snapshot of the table; an error leaves no rule to match. *)
FetchRules(d) ==
  /\ pc[d] = "notify" /\ ~fetched[d]
  /\ fetched' = [fetched EXCEPT ![d] = TRUE]
  /\ \E found \in {{}, {r \in rules : r.project = ProjectFor(d)}} :
        todo' = [todo EXCEPT ![d] = found]
  /\ UNCHANGED <<vars, settings, matched, sent, unread>>

(* An event without environment matches every rule.                        *)
EnvMatches(e, r) == r.env = NoEnv \/ e.env = NoEnv \/ e.env = r.env

(* A rule with a threshold reads the hit counter again, and fires at its   *)
(* multiples; its window only decides whether there is a threshold at all. *)
CountMatches(e, r) ==
  r.min > 1 /\ r.window > 0 => HitsOf(e.key) >= r.min /\ HitsOf(e.key) % r.min = 0

Fires(d, r) == EnvMatches(ev[d], r) /\ CountMatches(ev[d], r)

(* Mutant: a rule that applies counts as matched although it did not fire. *)
Match_applies(d, r) == EnvMatches(ev[d], r)
Match(d, r) == Fires(d, r)

(* go SendDiscordWebhook(...), go SendTelegramWebhook(...): for each that  *)
(* is configured.                                                          *)
Send(d, kind, config) ==
  sent' = sent \cup {[from |-> d, kind |-> kind, to |-> t] : t \in config}

EvalRule(d, r) ==
  /\ pc[d] = "notify" /\ fetched[d] /\ r \in todo[d]
  /\ todo' = [todo EXCEPT ![d] = @ \ {r}]
  /\ matched' = [matched EXCEPT ![d] = @ \/ Match(d, r)]
  /\ IF Fires(d, r) THEN Send(d, "rule", r.targets) ELSE UNCHANGED sent
  /\ UNCHANGED <<vars, settings, fetched, unread>>

(* The rule's row cannot be scanned, or its count query fails.             *)
SkipRule(d, r) ==
  /\ pc[d] = "notify" /\ fetched[d] /\ r \in todo[d]
  /\ todo' = [todo EXCEPT ![d] = @ \ {r}]
  /\ UNCHANGED <<vars, settings, fetched, matched, sent, unread>>

(* No rule matched: the default webhooks, if saveEvent asked to notify.    *)
Falls_unasked(d) == ~matched[d]                                       \* mutant
Falls(d) == ~matched[d] /\ should[d]

(* TriggerWebhooks: the project's own target of a channel replaces that of *)
(* the command line, if the row of the project can be read; a project      *)
(* without a row has none.                                                 *)
Merged(g, own) == own \cup {t \in g : \A o \in own : ChannelOf[o] # ChannelOf[t]}

Trigger(d) ==
  \/ Send(d, "default", Merged(global, override[ProjectFor(d)])) /\ UNCHANGED unread
  \/ Send(d, "default", global) /\ unread' = unread \cup {d}

Finish(d) ==
  /\ fetched[d] /\ todo[d] = {}
  /\ IF Falls(d) THEN Trigger(d) ELSE UNCHANGED <<sent, unread>>
  /\ fetched' = [fetched EXCEPT ![d] = FALSE]
  /\ matched' = [matched EXCEPT ![d] = FALSE]
  /\ Notify(d)
  /\ UNCHANGED <<settings, todo>>

-----------------------------------------------------------------------------
(* The rest of the system                                                  *)

(* Telegram messages have a button.  It carries the id of the event that   *)
(* raised the alert; the poller resolves whatever issue has it, if any.    *)
Press(m) ==
  /\ m \in sent /\ ChannelOf[m.to] = "telegram"
  /\ TelegramResolve(ev[m.from].id)
  /\ UNCHANGED alertVars

AlertCrash ==
  /\ Crash
  /\ fetched' = [d \in Deliveries |-> FALSE]
  /\ todo' = [d \in Deliveries |-> {}]
  /\ matched' = [d \in Deliveries |-> FALSE]
  /\ UNCHANGED <<settings, sent, unread>>

AddRule(r)    == r \notin rules /\ rules' = rules \cup {r}
RemoveRule(r) == r \in rules /\ rules' = rules \ {r}

ChangeRules ==
  /\ \E r \in Rules : AddRule(r) \/ RemoveRule(r)
  /\ UNCHANGED <<vars, global, override, evaluation, sent, unread>>

SaveSettings(p, config) ==
  /\ override' = [override EXCEPT ![p] = config]
  /\ UNCHANGED <<vars, rules, global, evaluation, sent, unread>>

Evaluate(d) == FetchRules(d) \/ (\E r \in Rules : EvalRule(d, r) \/ SkipRule(d, r)) \/ Finish(d)

(* The dashboard; the poller's button is Press.                            *)
Dashboard == \E id \in Ids :
               \/ \E next \in BOOLEAN : Resolve(id, next)
               \/ \E duration \in Durations : Snooze(id, duration)

StoreNext ==
  /\ \/ \E d \in Deliveries :
          (\E e \in Events : Receive(d, e)) \/ Lookup(d) \/ Upsert(d) \/ UpsertFails(d)
     \/ Dashboard
     \/ RetentionCleanup
     \/ \E p \in Projects : DeleteProjectEvents(p)
     \/ Tick
  /\ UNCHANGED alertVars

AlertNext ==
  \/ StoreNext
  \/ \E d \in Deliveries : Evaluate(d)
  \/ \E m \in sent : Press(m)
  \/ AlertCrash
  \/ ChangeRules
  \/ \E p \in Projects, config \in Overrides : SaveSettings(p, config)

AlertSpec == AlertInit /\ [][AlertNext]_allVars

-----------------------------------------------------------------------------
(* Properties                                                              *)

AlertTypeOK ==
  /\ rules \subseteq Rules
  /\ global \in Globals /\ override \in [Projects -> Overrides]
  /\ fetched \in [Deliveries -> BOOLEAN]
  /\ todo \in [Deliveries -> SUBSET Rules]
  /\ matched \in [Deliveries -> BOOLEAN]
  /\ sent \subseteq Message /\ unread \subseteq Deliveries

(* README.md:76, and the fallback promised in notify.go:141-143.  A call   *)
(* that created or reopened an issue, and whose SELECT nobody overtook     *)
(* with a resolve, a snooze or a deletion, has sent an alert when it       *)
(* returns: rules that mismatch, cannot be read, or appear or vanish       *)
(* meanwhile never swallow it, nor does an override that cannot be read.   *)
(* The exception: the command line configures nothing, and the project     *)
(* nothing that the call could read.                                       *)
OpenedIsAlerted ==
  [][\A d \in Deliveries :
        /\ pc[d] = "notify" /\ pc'[d] = "done"
        /\ opened[d] /\ ~meddled[d] /\ old[d] # "unreadable"
        => \/ \E m \in sent' : m.from = d
           \/ global = {} /\ (override[ProjectFor(d)] = {} \/ d \in unread')]_allVars

(* The default webhooks stay silent about an event that a gate or a snooze *)
(* absorbed, and about a repetition, unless another writer overtook the    *)
(* call; and they never repeat what a rule has said.                       *)
DefaultIsEarned ==
  [][\A m \in sent' \ sent : m.kind = "default" =>
        /\ opened[m.from] \/ meddled[m.from] \/ contended[m.from]
        /\ ~\E n \in sent : n.from = m.from /\ n.kind = "rule"]_allVars

-----------------------------------------------------------------------------
(* What the documents say and the code does not do                         *)

(* README.md:84: errors are resolved "directly from the Telegram chat":    *)
(* the alert of a call that created or reopened an issue has a button that *)
(* addresses this issue, if it still exists.                               *)
ButtonAddressesIssue ==
  [][\A m \in sent' \ sent :
        LET e == ev[m.from]
        IN  ChannelOf[m.to] = "telegram" /\ opened[m.from] /\ Present(e.key) => HasId(e.key, e.id)]_allVars

(* README.md:262: a snoozed issue is muted: an occurrence that the snooze  *)
(* absorbed, with no other writer near, raises no alert.                   *)
SnoozedIsMuted ==
  [][\A m \in sent' \ sent :
        old[m.from] = "snoozed" => opened[m.from] \/ meddled[m.from] \/ contended[m.from]]_allVars

(* README.md:245: a rule alerts when the issue reaches its threshold: once *)
(* every call has returned, an issue with that many hits has raised one.   *)
ThresholdAlerts ==
  \A k \in Keys, r \in rules :
     /\ \A d \in Deliveries : pc[d] \in {"idle", "done"}
     /\ r.project = ProjectOf[k] /\ HitsOf(k) >= r.min
     => \E m \in sent : m.kind = "rule" /\ ev[m.from].key = k
=============================================================================
