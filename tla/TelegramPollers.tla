-------------------------- MODULE TelegramPollers --------------------------
(***************************************************************************)
(* The Telegram bot: one manager goroutine starts a poller for every bot   *)
(* token it finds among the projects, once; each poller fetches updates by *)
(* offset and resolves the issue of every pressed button.  Telegram keeps  *)
(* an update until a request with a higher offset confirms it.  Presses,   *)
(* changes of settings, failing requests and crashes interleave.           *)
(***************************************************************************)
EXTENDS Naturals, Sequences, FiniteSets

CONSTANTS
  Projects,
  Tokens,        \* bot tokens; the poller of one in Short panics
  Short,         \* those of less than five characters
  NoToken,       \* the empty string
  TgToken,       \* the token of the command line, or NoToken
  Issues,
  MaxUpdates,    \* bound: presses per bot
  MaxChanges,    \* bound: changes of a project's settings
  MaxCrashes     \* bound: how often the process dies

ASSUME PollersAssumption ==
  /\ NoToken \notin Tokens /\ TgToken \in Tokens \cup {NoToken} /\ Short \subseteq Tokens
  /\ MaxUpdates \in Nat /\ MaxChanges \in Nat /\ MaxCrashes \in Nat

Updates == 1..MaxUpdates       \* update_id: Telegram counts up for every bot

VARIABLES
  token,      \* tg_token of each project
  active,     \* activePollers
  found,      \* the tokens the manager still has to look at
  ppc,        \* where each poller is
  offset,     \* its offset
  batch,      \* the updates of the last answer it has not processed yet
  sent,       \* Telegram's side: the issue of each update of a bot so far
  confirmed,  \* Telegram has forgotten the updates up to here
  resolved,   \* the issues that an UPDATE has resolved (IssueStore has the rest)
  times,      \* history: how often each update was processed
  changes, crashes

manager  == <<active, found>>
poller   == <<ppc, offset, batch>>
telegram == <<sent, confirmed>>
vars == <<token, manager, poller, telegram, resolved, times, changes, crashes>>

Init ==
  /\ token = [p \in Projects |-> NoToken]
  /\ active = {} /\ found = {}
  /\ ppc = [t \in Tokens |-> "off"]
  /\ offset = [t \in Tokens |-> 0]
  /\ batch = [t \in Tokens |-> {}]
  /\ sent = [t \in Tokens |-> <<>>]
  /\ confirmed = [t \in Tokens |-> 0]
  /\ resolved = {}
  /\ times = [t \in Tokens |-> [u \in Updates |-> 0]]
  /\ changes = 0 /\ crashes = 0

-----------------------------------------------------------------------------
(* People                                                                  *)

Press(t, i) ==
  /\ t \notin Short              \* Telegram issues longer ones
  /\ Len(sent[t]) < MaxUpdates
  /\ sent' = [sent EXCEPT ![t] = Append(@, i)]
  /\ UNCHANGED <<token, manager, poller, confirmed, resolved, times, changes, crashes>>

(* updateProjectSettingsHandler takes any text for a token.                *)
SetToken(p, t) ==
  /\ changes < MaxChanges /\ t # token[p]
  /\ token' = [token EXCEPT ![p] = t]
  /\ changes' = changes + 1
  /\ UNCHANGED <<manager, poller, telegram, resolved, times, crashes>>

-----------------------------------------------------------------------------
(* EnsureTelegramPollers                                                   *)

Scan ==
  /\ found = {}
  /\ found' = ({token[p] : p \in Projects} \cup {TgToken}) \ {NoToken}
  /\ UNCHANGED <<token, active, poller, telegram, resolved, times, changes, crashes>>

(* A query that fails leaves the token of the command line.                *)
ScanFails ==
  /\ found = {}
  /\ found' = {TgToken} \ {NoToken}
  /\ UNCHANGED <<token, active, poller, telegram, resolved, times, changes, crashes>>

Start(t) ==
  /\ t \in found
  /\ found' = found \ {t}
  /\ active' = active \cup {t}
  /\ ppc' = IF t \in active THEN ppc ELSE [ppc EXCEPT ![t] = "start"]
  /\ UNCHANGED <<token, offset, batch, telegram, resolved, times, changes, crashes>>

-----------------------------------------------------------------------------
(* runTelegramPoller                                                       *)

(* The process dies and is started again; all of this was in its memory.   *)
Die ==
  /\ crashes < MaxCrashes /\ crashes' = crashes + 1
  /\ active' = {} /\ found' = {}
  /\ ppc' = [t \in Tokens |-> "off"]
  /\ offset' = [t \in Tokens |-> 0]
  /\ batch' = [t \in Tokens |-> {}]
  /\ UNCHANGED <<token, telegram, resolved, times, changes>>

Crash == active # {} /\ Die

(* The log line slices token[:5]: a shorter token panics, in a goroutine   *)
(* that nobody recovers.                                                   *)
Begin(t) ==
  /\ ppc[t] = "start" /\ t \notin Short
  /\ ppc' = [ppc EXCEPT ![t] = "poll"]
  /\ UNCHANGED <<token, manager, offset, batch, telegram, resolved, times, changes, crashes>>

Panic(t) == ppc[t] = "start" /\ t \in Short /\ Die

(* getUpdates confirms what is below the offset and answers with some of   *)
(* the updates after it, if there are any.                                 *)
Bigger(a, b) == IF a > b THEN a ELSE b
Confirm(t) == confirmed' = [confirmed EXCEPT ![t] = Bigger(@, offset[t] - 1)]
Fetch(t) ==
  /\ ppc[t] = "poll" /\ batch[t] = {}
  /\ Confirm(t)
  /\ \E last \in confirmed'[t]..Len(sent[t]) :
        batch' = [batch EXCEPT ![t] = (confirmed'[t] + 1)..last]
  /\ UNCHANGED <<token, manager, ppc, offset, sent, resolved, times, changes, crashes>>

(* The answer does not arrive, or is none: try again after a while.        *)
FetchFails(t) ==
  /\ ppc[t] = "poll" /\ batch[t] = {}
  /\ Confirm(t)
  /\ UNCHANGED <<token, manager, poller, sent, resolved, times, changes, crashes>>

(* The offset moves past the update before it is processed; the mutants    *)
(* are off by one, or take the last update of an answer only.              *)
Advance_tooFew(u) == u
Advance_tooMany(u) == u + 2
Advance(u) == u + 1
Current_last(t) == CHOOSE u \in batch[t] : \A v \in batch[t] : v <= u
Current(t) == CHOOSE u \in batch[t] : \A v \in batch[t] : u <= v
Rest(t) == {u \in batch[t] : u > Current(t)}

(* The error of the UPDATE is ignored, and the button is removed anyway.   *)
Process(t) ==
  LET u == Current(t)
  IN  /\ ppc[t] = "poll" /\ batch[t] # {}
      /\ offset' = [offset EXCEPT ![t] = IF u >= @ THEN Advance(u) ELSE @]
      /\ resolved' \in {resolved, resolved \cup {sent[t][u]}}
      /\ times' = [times EXCEPT ![t][u] = @ + 1]
      /\ batch' = [batch EXCEPT ![t] = Rest(t)]
      /\ UNCHANGED <<token, manager, ppc, telegram, changes, crashes>>

-----------------------------------------------------------------------------
Manager == Scan \/ ScanFails \/ \E t \in Tokens : Start(t)
Poller(t) == Begin(t) \/ Panic(t) \/ Fetch(t) \/ FetchFails(t) \/ Process(t)

Next == \/ \E t \in Tokens, i \in Issues : Press(t, i)
        \/ \E p \in Projects, t \in Tokens \cup {NoToken} : SetToken(p, t)
        \/ Manager \/ Crash
        \/ \E t \in Tokens : Poller(t)

Spec == Init /\ [][Next]_vars

(* The goroutines run; what is tried again and again succeeds in the end.  *)
FairSpec ==
  /\ Spec
  /\ WF_vars(Manager) /\ SF_vars(Scan)
  /\ \A t \in Tokens : WF_vars(Poller(t)) /\ SF_vars(Fetch(t) /\ batch'[t] # {})

-----------------------------------------------------------------------------
(* Properties                                                              *)

TypeOK ==
  /\ token \in [Projects -> Tokens \cup {NoToken}]
  /\ active \subseteq Tokens /\ found \subseteq Tokens
  /\ ppc \in [Tokens -> {"off", "start", "poll"}]
  /\ \A t \in Tokens : ppc[t] # "off" => t \in active
  /\ offset \in [Tokens -> Nat]
  /\ batch \in [Tokens -> SUBSET Updates]
  /\ sent \in [Tokens -> Seq(Issues)] /\ confirmed \in [Tokens -> Nat]
  /\ \A t \in Tokens : confirmed[t] <= Len(sent[t])
  /\ resolved \subseteq Issues
  /\ times \in [Tokens -> [Updates -> Nat]]
  /\ changes \in 0..MaxChanges /\ crashes \in 0..MaxCrashes

(* notify.go:104-106.  A button that was pressed once is processed once,   *)
(* and once more at most for every time the process died after that: what  *)
(* a poller has processed it never gets again, and no token has two.       *)
PressedOnce ==
  \A t \in Tokens, u \in Updates : times[t][u] <= 1 + crashes

(* Telegram forgets an update only after it was processed, in whatever     *)
(* portions the answers come and wherever the process dies.                *)
NothingForgotten ==
  \A t \in Tokens : \A u \in 1..confirmed[t] : times[t][u] > 0

(* README.md:84.  Every press on a bot that stays configured is processed, *)
(* in spite of crashes and failing requests; unless somebody saves a token *)
(* of less than five characters, for the process then panics at each start.*)
Configured(t) == t = TgToken \/ \E p \in Projects : token[p] = t
PressIsProcessed ==
  \A t \in Tokens, u \in Updates :
     Len(sent[t]) >= u ~>
        times[t][u] > 0 \/ ~Configured(t) \/ \E x \in Short : Configured(x)

=============================================================================
