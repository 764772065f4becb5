----------------------------- MODULE LiveFeeds -----------------------------
(***************************************************************************)
(* The views that follow a table of the registry: the dashboard's feed,    *)
(* table and chart, the landing page's feed (apps/web/components) and the  *)
(* React hook useTxLog.  Each reads the newest rows now and then, and two  *)
(* of them also hear of inserts on a realtime channel, which replays       *)
(* nothing.                                                                *)
(*                                                                         *)
(* Rows are numbered as they are inserted; a view shows them newest first. *)
(* A read sees the table at one moment and arrives at another.             *)
(***************************************************************************)
EXTENDS Integers, Sequences, FiniteSets

CONSTANTS
  Views,           \* "tx-feed", "sessions", "chart", "landing" or "tx-log"
  MaxEntries,      \* rows a view keeps
  MaxRows, MaxReads, MaxDrops  \* bounds: inserts, reads in flight, lost channels

ASSUME FeedAssumption ==
  /\ Views \subseteq {"tx-feed", "sessions", "chart", "landing", "tx-log"}
  /\ {MaxEntries, MaxRows, MaxReads} \subseteq Nat \ {0} /\ MaxDrops \in Nat

VARIABLES
  view, onPage,
  rows,            \* the table: rows 1..rows
  shown,           \* the rows on screen
  reads,           \* queries in flight
  realtime,        \* "off", "joining", "joined" (the client does not know), "live" or "down"
  events,          \* inserts on their way
  polling,         \* the fallback interval of the dashboard's feed
  gap,             \* a read failed since the channel went live
  drops

feedVars == <<view, onPage, rows, shown, reads, realtime, events, polling, gap, drops>>

----------------------------------------------------------------------------
\* Newest first, at most MaxEntries.
NewestFirst(S) ==
  LET sorted == [i \in 1..Cardinality(S) |-> CHOOSE r \in S : Cardinality({q \in S : q >= r}) = i]
  IN SubSeq(sorted, 1, IF Len(sorted) < MaxEntries THEN Len(sorted) ELSE MaxEntries)

Shown == {shown[i] : i \in DOMAIN shown}
Newest(seq) == IF seq = <<>> THEN 0 ELSE Head(seq)

\* Mutant: what comes in replaces what is there.
Replaced(incoming) == NewestFirst(incoming)

\* mergeTxEntries
Merged(incoming) == NewestFirst(Shown \cup incoming)

\* useTxLog puts a row on top, whatever is there.
Prepended(row) ==
  LET longer == <<row>> \o shown
  IN SubSeq(longer, 1, IF Len(longer) < MaxEntries THEN Len(longer) ELSE MaxEntries)

----------------------------------------------------------------------------
NoRead == [st |-> "none", rows |-> 0]
Asked == [st |-> "asked", rows |-> 0]
Free == {i \in DOMAIN reads : reads[i] = NoRead}
NoneInFlight == Free = DOMAIN reads
Listens == view \in {"tx-feed", "tx-log"}

\* The page comes with a snapshot, older than the view, or without one.
FeedInit ==
  /\ view \in Views /\ onPage = TRUE /\ rows \in 0..1
  /\ shown \in {<<>>, IF view \in {"tx-feed", "sessions"} THEN NewestFirst(1..rows) ELSE <<>>}
  /\ reads = [i \in 1..MaxReads |-> IF view = "tx-log" /\ i = 1 THEN Asked ELSE NoRead]
  /\ realtime = IF Listens THEN "joining" ELSE "off"
  /\ events = {} /\ polling = FALSE /\ gap = FALSE /\ drops = 0

\* The chart does not start a fetch while one is under way.
MayFetch == Free # {} /\ (view = "chart" => NoneInFlight)

OneMoreRead == reads' = [reads EXCEPT ![CHOOSE i \in Free : TRUE] = Asked]

Insert ==
  /\ rows < MaxRows /\ rows' = rows + 1
  /\ events' = IF realtime \in {"joined", "live"} THEN events \cup {rows'} ELSE events
  /\ UNCHANGED <<view, onPage, shown, reads, realtime, polling, gap, drops>>

\* An interval fires: the fallback one of the feed, or the view's own.
Poll ==
  /\ onPage /\ (polling \/ ~Listens) /\ MayFetch
  /\ OneMoreRead
  /\ UNCHANGED <<view, onPage, rows, shown, realtime, events, polling, gap, drops>>

DatabaseAnswers(i) ==
  /\ reads[i] = Asked /\ reads' = [reads EXCEPT ![i] = [st |-> "read", rows |-> rows]]
  /\ UNCHANGED <<view, onPage, rows, shown, realtime, events, polling, gap, drops>>

\* The dashboard's feed merges, the others show what was read.
ReadArrives(i) ==
  /\ reads[i].st = "read" /\ reads' = [reads EXCEPT ![i] = NoRead]
  /\ shown' = IF ~onPage THEN shown
              ELSE IF view = "tx-feed" THEN Merged(1..reads[i].rows) ELSE NewestFirst(1..reads[i].rows)
  /\ UNCHANGED <<view, onPage, rows, realtime, events, polling, gap, drops>>

\* A read that fails leaves what is on screen.
ReadFails(i) ==
  /\ reads[i] # NoRead /\ reads' = [reads EXCEPT ![i] = NoRead]
  /\ gap' = TRUE
  /\ UNCHANGED <<view, onPage, rows, shown, realtime, events, polling, drops>>

----------------------------------------------------------------------------
\* The channel

Joins ==
  /\ realtime \in {"joining", "down"} /\ realtime' = "joined"
  /\ UNCHANGED <<view, onPage, rows, shown, reads, events, polling, gap, drops>>

\* Mutant: only the channel's inserts count, as before the backfill.
SubscribedOnly ==
  /\ realtime = "joined" /\ realtime' = "live" /\ polling' = FALSE /\ gap' = (gap /\ view # "tx-feed")
  /\ UNCHANGED <<view, onPage, rows, shown, reads, events, drops>>

\* SUBSCRIBED: the feed stops polling and fills the gap.
Subscribed ==
  /\ realtime = "joined" /\ realtime' = "live" /\ polling' = FALSE /\ gap' = (gap /\ view # "tx-feed")
  /\ IF view = "tx-feed" THEN Free # {} /\ OneMoreRead ELSE UNCHANGED reads
  /\ UNCHANGED <<view, onPage, rows, shown, events, drops>>

\* CHANNEL_ERROR, TIMED_OUT or CLOSED; inserts on their way are lost.
ChannelDrops ==
  /\ realtime \in {"joining", "joined", "live"} /\ realtime' = "down" /\ events' = {}
  /\ polling' = (view = "tx-feed")
  /\ drops < MaxDrops /\ drops' = drops + 1
  /\ UNCHANGED <<view, onPage, rows, shown, reads, gap>>

InsertArrives ==
  \E row \in events :
    /\ \A other \in events : row <= other
    /\ events' = events \ {row}
    /\ shown' = IF view = "tx-feed" THEN Merged({row}) ELSE Prepended(row)
    /\ UNCHANGED <<view, onPage, rows, reads, realtime, polling, gap, drops>>

Unmount ==
  /\ onPage /\ onPage' = FALSE /\ polling' = FALSE
  /\ realtime' = "off" /\ events' = {}
  /\ UNCHANGED <<view, rows, shown, reads, gap, drops>>

FeedStep ==
  \/ Insert \/ Poll
  \/ \E i \in DOMAIN reads : DatabaseAnswers(i) \/ ReadArrives(i) \/ ReadFails(i)
  \/ Joins \/ Subscribed \/ ChannelDrops \/ InsertArrives
  \/ Unmount

FeedSpec == FeedInit /\ [][FeedStep]_feedVars

----------------------------------------------------------------------------
\* On the dashboard's feed and chart the newest row never goes back to an older one,
\* in whatever order reads and inserts arrive.
NeverGoesBack == [][(view \in {"tx-feed", "chart"}) => Newest(shown) <= Newest(shown')]_feedVars

\* TxFeed.tsx: "backfill the gap between the SSR snapshot and the channel going
\* live, plus anything missed while the socket was down": a live feed whose reads
\* came back misses no row, and shows none twice.
FeedHasNoGap ==
  view = "tx-feed" /\ realtime = "live" /\ NoneInFlight /\ events = {} /\ ~gap =>
    shown = NewestFirst(1..rows)

\* useTxLog.ts: "Returns a live array of rows ordered newest-first."
TxLogIsLive ==
  view = "tx-log" /\ realtime = "live" /\ NoneInFlight /\ events = {} /\ ~gap =>
    shown = NewestFirst(1..rows)

\* The same as NeverGoesBack, of the views that poll without a guard.
PolledNeverGoesBack == [][(view \in {"sessions", "landing"}) => Newest(shown) <= Newest(shown')]_feedVars
=============================================================================
