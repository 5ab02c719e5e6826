------------------------------- MODULE LogHub -------------------------------
(***************************************************************************)
(* The log of the web server (httpapi/logs.go), the two handlers that give *)
(* it to the page (a stream of server-sent events and a listing since an   *)
(* id), and the page's log console, which uses both.                       *)
(*                                                                         *)
(* An event is its id.  A connection is one attempt of the page's          *)
(* EventSource, and each poll one request of pollLogsOnce; the timer does  *)
(* not wait for an answer, so several polls may be under way.              *)
(***************************************************************************)
EXTENDS Naturals, Sequences, SequencesExt

CONSTANTS
  Loggers,   \* goroutines that call log
  Polls,     \* polls that may be under way at once
  BufCap,    \* events the hub keeps, 1000 in the code
  QueueCap,  \* a subscriber's channel, 64 in the code
  ConsoleCap, \* lines the console keeps, 500 in the code
  Filters,   \* the levels that have a filter
  Level,     \* the level of each event
  StreamPolls, \* bound: the polls that may be under way beside a stream that delivers
  MaxEvents, \* bound on the events ever logged
  MaxConns   \* bound on the connections the page opens

ASSUME LogAssumption ==
  /\ BufCap \in Nat \ {0} /\ QueueCap \in Nat \ {0} /\ ConsoleCap \in Nat \ {0}
  /\ MaxEvents \in Nat /\ MaxConns \in Nat

VARIABLES
  delivers,    \* whether the connection delivers anything: in the desktop shell it may not
  logSeq,      \* the last id given out
  entry,       \* the event each logger has numbered and not published, or 0
  log,         \* every event published, in the order of publication
  at,          \* where each connection's handleLogStream is
  since,       \* the Last-Event-ID it was called with, or 0
  queue,       \* its subscription's channel
  written,     \* the events it has written to the page
  overflown,   \* whether its channel was full when an event came
  cur, up,     \* the page's last connection, and whether it is alive
  got,         \* how much of that connection's events the page has received
  lastEventID, \* the id that EventSource received last
  lastLogID,   \* the largest id the page has seen
  logBody,     \* the lines of its console, each an event
  levelFilters, \* the levels that are switched on
  muted,       \* the events that came while their level was off
  cut,         \* the events whose line was cut from the console
  polling,     \* whether its timer runs
  poll         \* the polls under way: what they asked and were answered

hub == <<logSeq, entry, log>>
conn == <<at, since, queue, written, overflown>>
stream == <<delivers, cur, up, got, lastEventID>>
console == <<lastLogID, logBody, levelFilters, muted, cut>>
vars == <<hub, conn, stream, console, polling, poll>>

Events == 1..MaxEvents
Conns == 1..MaxConns
Served == {"asked", "subscribed", "streaming"}
Subscribers == {c \in Conns : at[c] \in {"subscribed", "streaming"}}
NoPoll == [at |-> "idle", since |-> 0, items |-> <<>>]

Init ==
  /\ logSeq = 0 /\ entry = [g \in Loggers |-> 0] /\ log = <<>>
  /\ at = [c \in Conns |-> "none"]
  /\ since = [c \in Conns |-> 0]
  /\ queue = [c \in Conns |-> <<>>]
  /\ written = [c \in Conns |-> <<>>]
  /\ overflown = [c \in Conns |-> FALSE]
  /\ delivers \in BOOLEAN
  /\ cur = 0 /\ up = FALSE /\ got = 0 /\ lastEventID = 0
  /\ lastLogID = 0 /\ logBody = <<>> /\ levelFilters = Filters
  /\ muted = {} /\ cut = {}
  /\ polling = FALSE /\ poll = [p \in Polls |-> NoPoll]

-----------------------------------------------------------------------------
(* log and the hub.                                                        *)

\* What is left of a sequence once it is cut to its last n elements.
Latest(events, n) ==
  IF Len(events) > n THEN SubSeq(events, Len(events) - n + 1, Len(events)) ELSE events
Buffer == Latest(log, BufCap)

\* Of the events of a sequence, those of a set, collected one by one.
Picked(events, S) ==
  LET out[i \in 0..Len(events)] ==
        IF i = 0 THEN <<>>
        ELSE IF events[i] \in S THEN Append(out[i - 1], events[i]) ELSE out[i - 1]
  IN  out[Len(events)]

Newer(events, id) == Picked(events, {e \in Events : e > id})
SinceNext(id) == Newer(Buffer, id + 1)
Since(id) == Newer(Buffer, id)

\* The id is taken from an atomic counter, before Publish takes the lock.
Number(g) ==
  /\ entry[g] = 0 /\ logSeq < MaxEvents
  /\ logSeq' = logSeq + 1
  /\ entry' = [entry EXCEPT ![g] = logSeq + 1]
  /\ UNCHANGED <<log, conn, stream, console, polling, poll>>

PublishBlind(g) ==
  /\ entry[g] # 0
  /\ log' = Append(log, entry[g])
  /\ entry' = [entry EXCEPT ![g] = 0]
  /\ queue' = [c \in Conns |-> IF c \in Subscribers THEN Append(queue[c], entry[g]) ELSE queue[c]]
  /\ UNCHANGED <<logSeq, at, since, written, overflown, stream, console, polling, poll>>

\* A full channel loses the event.
Publish(g) ==
  /\ entry[g] # 0
  /\ log' = Append(log, entry[g])
  /\ entry' = [entry EXCEPT ![g] = 0]
  /\ queue' = [c \in Conns |-> IF c \in Subscribers /\ Len(queue[c]) < QueueCap
                               THEN Append(queue[c], entry[g]) ELSE queue[c]]
  /\ overflown' = [c \in Conns |-> overflown[c] \/ (c \in Subscribers /\ Len(queue[c]) = QueueCap)]
  /\ UNCHANGED <<logSeq, at, since, written, stream, console, polling, poll>>

-----------------------------------------------------------------------------
(* handleLogStream.                                                        *)

Subscribe(c) ==
  /\ at[c] = "asked"
  /\ at' = [at EXCEPT ![c] = "subscribed"]
  /\ UNCHANGED <<hub, since, queue, written, overflown, stream, console, polling, poll>>

MissedNext(c) == IF since[c] > 0 THEN SinceNext(since[c]) ELSE <<>>

\* A first connection, without Last-Event-ID, has nothing replayed.
Missed(c) == IF since[c] > 0 THEN Since(since[c]) ELSE <<>>
Replay(c) ==
  /\ at[c] = "subscribed"
  /\ written' = [written EXCEPT ![c] = Missed(c)]
  /\ at' = [at EXCEPT ![c] = "streaming"]
  /\ UNCHANGED <<hub, since, queue, overflown, stream, console, polling, poll>>

Forward(c) ==
  /\ at[c] = "streaming" /\ queue[c] # <<>>
  /\ written' = [written EXCEPT ![c] = Append(@, Head(queue[c]))]
  /\ queue' = [queue EXCEPT ![c] = Tail(@)]
  /\ UNCHANGED <<hub, at, since, overflown, stream, console, polling, poll>>

\* A broken connection cancels the request's context, or fails a write, and the
\* deferred cancelSub runs.  What it had is gone.
Hangup(c) ==
  /\ at[c] \in Served /\ ~(c = cur /\ up)
  /\ at' = [at EXCEPT ![c] = "ended"]
  /\ since' = [since EXCEPT ![c] = 0]
  /\ queue' = [queue EXCEPT ![c] = <<>>]
  /\ written' = [written EXCEPT ![c] = <<>>]
  /\ overflown' = [overflown EXCEPT ![c] = FALSE]
  /\ UNCHANGED <<hub, stream, console, polling, poll>>

-----------------------------------------------------------------------------
(* The page: connectLogs, pollLogsOnce, appendLog.                         *)

\* EventSource connects, and connects again after an error (where nothing is delivered, once
\* is enough: the page has no id to ask from).
Connect ==
  /\ ~up /\ cur < MaxConns /\ (delivers \/ cur = 0)
  /\ cur' = cur + 1 /\ up' = TRUE
  /\ at' = [at EXCEPT ![cur + 1] = "asked"]
  /\ since' = [since EXCEPT ![cur + 1] = lastEventID]
  /\ UNCHANGED <<hub, queue, written, overflown, delivers, got, lastEventID, console, polling, poll>>

\* onerror: polling starts, and nothing ever stops it.
Break ==
  /\ up /\ up' = FALSE /\ got' = 0
  /\ polling' = TRUE
  /\ UNCHANGED <<hub, conn, delivers, cur, lastEventID, console, poll>>

NoDataIgnored == up /\ lastEventID = 0 /\ ~polling /\ UNCHANGED vars

\* The timer of onopen: no event has come within 2.2 seconds.
NoData ==
  /\ up /\ lastEventID = 0 /\ ~polling
  /\ polling' = TRUE
  /\ UNCHANGED <<hub, conn, stream, console, poll>>

Hidden(e) == Level[e] \in Filters \ levelFilters

\* appendLog of one item after the other.  An event under a level that is off counts as
\* seen and is dropped; of the lines the console keeps the last ones.
AppendLog(items) ==
  LET lines == logBody \o Picked(items, {e \in Events : ~Hidden(e)})
  IN  /\ lastLogID' = Max({lastLogID} \union ToSet(items))
      /\ logBody' = Latest(lines, ConsoleCap)
      /\ cut' = cut \union (ToSet(lines) \ ToSet(logBody'))
      /\ muted' = muted \union {e \in ToSet(items) : Hidden(e)}
      /\ UNCHANGED levelFilters

Receive ==
  /\ delivers /\ up /\ got < Len(written[cur])
  /\ got' = got + 1
  /\ lastEventID' = written[cur][got + 1]
  /\ AppendLog(<<written[cur][got + 1]>>)
  /\ UNCHANGED <<hub, conn, delivers, cur, up, polling, poll>>

Ask(p) ==
  /\ polling /\ poll[p].at = "idle" /\ (delivers => p \in StreamPolls)
  /\ poll' = [poll EXCEPT ![p] = [at |-> "asked", since |-> lastLogID, items |-> <<>>]]
  /\ UNCHANGED <<hub, conn, stream, console, polling>>

\* handleLogs.
Answer(p) ==
  /\ poll[p].at = "asked"
  /\ poll' = [poll EXCEPT ![p] = [at |-> "answered", since |-> 0, items |-> Since(@.since)]]
  /\ UNCHANGED <<hub, conn, stream, console, polling>>

Fill(p) ==
  /\ poll[p].at = "answered"
  /\ AppendLog(poll[p].items)
  /\ poll' = [poll EXCEPT ![p] = NoPoll]
  /\ UNCHANGED <<hub, conn, stream, polling>>

\* Transient errors are ignored: the next poll asks again.
PollFails(p) ==
  /\ poll[p].at \in {"asked", "answered"}
  /\ poll' = [poll EXCEPT ![p] = NoPoll]
  /\ UNCHANGED <<hub, conn, stream, console, polling>>

\* A chip of the console: a level is switched, or "all" of them.
Toggle ==
  /\ \/ \E l \in Filters :
          levelFilters' = IF l \in levelFilters THEN levelFilters \ {l} ELSE levelFilters \union {l}
     \/ levelFilters' = IF levelFilters = Filters THEN {} ELSE Filters
  /\ UNCHANGED <<hub, conn, stream, lastLogID, logBody, muted, cut, polling, poll>>

Quiet == logSeq = MaxEvents /\ (\A g \in Loggers : entry[g] = 0) /\ UNCHANGED vars

Next ==
  \/ \E g \in Loggers : Number(g) \/ Publish(g)
  \/ \E c \in Conns : Subscribe(c) \/ Replay(c) \/ Forward(c) \/ Hangup(c)
  \/ Connect \/ Break \/ NoData \/ Receive \/ Toggle
  \/ \E p \in Polls : Ask(p) \/ Answer(p) \/ Fill(p) \/ PollFails(p)
  \/ Quiet

Spec == Init /\ [][Next]_vars

\* The page connects, its timers fire, and of its polls some are answered: the failures of a
\* poll are transient.
Fairness ==
  /\ WF_vars(NoData) /\ WF_vars(Connect)
  /\ WF_vars(\E p \in Polls : Ask(p))
  /\ SF_vars(\E p \in Polls : Answer(p)) /\ SF_vars(\E p \in Polls : Fill(p))
FairSpec == Spec /\ Fairness

-----------------------------------------------------------------------------
(* Properties.                                                             *)

TypeHub ==
  /\ logSeq \in 0..MaxEvents
  /\ entry \in [Loggers -> 0..MaxEvents]
  /\ log \in Seq(Events)
TypeConns ==
  /\ at \in [Conns -> {"none", "ended"} \union Served]
  /\ since \in [Conns -> 0..MaxEvents]
  /\ queue \in [Conns -> Seq(Events)] /\ \A c \in Conns : Len(queue[c]) <= QueueCap
  /\ written \in [Conns -> Seq(Events)]
  /\ overflown \in [Conns -> BOOLEAN]
TypePage ==
  /\ delivers \in BOOLEAN
  /\ cur \in 0..MaxConns /\ up \in BOOLEAN /\ (up => cur > 0)
  /\ lastEventID \in 0..MaxEvents /\ lastLogID \in 0..MaxEvents
  /\ got \in Nat /\ (up => got <= Len(written[cur]))
  /\ logBody \in Seq(Events) /\ Len(logBody) <= ConsoleCap
  /\ levelFilters \subseteq Filters /\ muted \subseteq Events /\ cut \subseteq Events
  /\ polling \in BOOLEAN
  /\ poll \in [Polls -> [at : {"idle", "asked", "answered"}, since : 0..MaxEvents, items : Seq(Events)]]

\* Every variable has its type (logHub, and the variables of connectLogs).
TypeOK == TypeHub /\ TypeConns /\ TypePage

\* Between the replay and the live events nothing is lost: of the events that
\* the buffer has and that a reconnecting page asked for, each was written to it
\* or waits in its channel, unless the channel overflowed.
NoGap ==
  \A c \in Conns : at[c] = "streaming" /\ since[c] > 0 /\ ~overflown[c] =>
    ToSet(Since(since[c])) \subseteq ToSet(written[c]) \union ToSet(queue[c])

\* No event with a larger id was published before this one.
OnTime(e) == \A i, j \in DOMAIN log : i < j /\ log[j] = e => log[i] < e

\* The page has done with an event what its console is for: the line is there, or the
\* level was off when the event came, or later lines have filled the console.
Dealt(e) ==
  \/ e \in ToSet(logBody) \union muted
  \/ e \in cut /\ Len(logBody) = ConsoleCap

\* Of the events that the hub still has and that were published before any larger id, a
\* console that polls has dealt with every one up to the largest it has seen, although its
\* polls overlap, come late and fail, and levels are switched off meanwhile.
NoneSkipped ==
  ~delivers => \A e \in ToSet(Buffer) : e <= lastLogID /\ OnTime(e) => Dealt(e)

\* Without a stream, the console has in the end dealt with every event that the hub has, but those
\* published after a larger id.
EventuallyShown ==
  ~delivers => <>[](\A e \in ToSet(Buffer) : OnTime(e) => Dealt(e))
=============================================================================
