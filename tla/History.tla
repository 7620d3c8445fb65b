------------------------------ MODULE History ------------------------------
(***************************************************************************)
(* The files the reports are made from: DataStore (src/lib/store.py) and   *)
(* the requests of the exchange clients that fill it.                      *)
(*                                                                         *)
(* A command (stats; info of Onyx) loads the file of an account, asks the  *)
(* exchange, page by page, for what happened since a minute before the     *)
(* last sync, adds it by key and saves with the present as the last sync.  *)
(* What it does not get now is never asked for again once it is older than *)
(* that minute.  The exchange shows a trade late, perhaps a draft of it    *)
(* first; a page may fail; time passes between pages; two commands may     *)
(* work on one file; the file is rewritten in place and the process may    *)
(* die, or the disk be full, in the middle.                                *)
(*                                                                         *)
(* Trades are numbered in the order of their time stamps, which is the     *)
(* order of every list.  A version is 0 (none), 1 (draft) or 2 (final).    *)
(***************************************************************************)
EXTENDS Integers, Sequences, FiniteSets, FiniteSetsExt

CONSTANTS
  Commands,    (* processes that sync one file                              *)
  Kinds,       (* the exchanges looked at                                   *)
  Overlap,     (* bound: those for which two of them are looked at together *)
  HashOf,      (* trade -> hash of its transaction                          *)
  Doubtful,    (* trades whose order Onyx may not list as filled: it is or  *)
               (* was filled in part, or 2000 orders have followed it       *)
  PageSize,    (* 2000, 1000, 255, 100, 50, 20 in the clients               *)
  Lookback,    (* lookback_sec                                              *)
  Ttl,         (* ttl_sec, unless --force                                   *)
  ArchiveLag,  (* the days BuilderArchive stays behind                      *)
  MaxLag,      (* bound: an exchange shows the final trade within this      *)
  MaxFetch,    (* bound on the time one sync takes                          *)
  MaxTime      (* bound on the clock                                        *)

Ids == DOMAIN HashOf
Exchanges == {"hyena", "onyx", "zero1", "pacifica", "rise", "nado", "omni", "ethereal"}

ASSUME HistoryAssumption ==
  /\ Overlap \subseteq Kinds /\ Kinds \subseteq Exchanges
  /\ IsFiniteSet(Ids) /\ Ids = 1..Cardinality(Ids) /\ Doubtful \subseteq Ids
  /\ {PageSize, ArchiveLag} \subseteq Nat \ {0}
  /\ {Lookback, Ttl, MaxLag, MaxFetch, MaxTime} \subseteq Nat

VARIABLES
  clock,
  kind,     (* the exchange of this account                                 *)
  stamp,    (* the trades: their time stamps                                *)
  shown,    (* trade -> version the exchange shows                          *)
  file,     (* the .pkl file                                                *)
  writers,  (* commands that have this very file open for writing           *)
  sync,     (* command -> what it is at                                     *)
  archive   (* .cache/onyx_builder.pkl                                      *)

vars == <<clock, kind, stamp, shown, file, writers, sync, archive>>
venue == <<clock, kind, stamp, shown>>

(***************************************************************************)
(* Files and commands                                                      *)
(***************************************************************************)
None == -1
Nothing == [i \in Ids |-> 0]

(* holes: part of an answer was missing when these records were fetched    *)
Contents == [last : None..MaxTime, recs : [Ids -> 0..2], holes : BOOLEAN]
Empty == [last |-> None, recs |-> Nothing, holes |-> FALSE]
File(state, data) == [state |-> state, data |-> data]
NoFile == File("none", Empty)
Torn == File("torn", Empty)

(* data: what was loaded and, when writing, what is written; got: the      *)
(* records read so far; next: where the next page starts; oids: the trades *)
(* of Onyx, by its orders or the archive, known once they are `asked` for. *)
Idle == [at |-> "out", data |-> Empty, got |-> Nothing, next |-> None, more |-> FALSE,
         began |-> 0, asked |-> FALSE, oids |-> {}]

NoArchive == [upto |-> None, keys |-> {}]

Init ==
  /\ clock = 0
  /\ kind \in Kinds
  /\ stamp = <<>>
  /\ shown = Nothing
  /\ file = NoFile
  /\ writers = {}
  /\ sync = [c \in Commands |-> Idle]
  /\ archive = NoArchive

(***************************************************************************)
(* The exchange                                                            *)
(***************************************************************************)
(* Orders of Nado and trades and transfers of Omni change after they are   *)
(* first shown, positions of Ethereal too.                                 *)
Drafts == {"nado", "omni", "ethereal"}

Happens ==
  /\ Len(stamp) + 1 \in Ids
  /\ stamp' = Append(stamp, clock)
  /\ UNCHANGED <<clock, shown, kind, file, writers, sync, archive>>

Shows(i) ==
  /\ i \in DOMAIN stamp
  /\ \E v \in (shown[i] + 1)..2 :
       /\ v = 2 \/ kind \in Drafts
       /\ shown' = [shown EXCEPT ![i] = v]
  /\ UNCHANGED <<clock, stamp, kind, file, writers, sync, archive>>

Tick ==
  /\ clock < MaxTime
  /\ \A i \in DOMAIN stamp : shown[i] = 2 \/ clock < stamp[i] + MaxLag
  /\ \A c \in Commands : sync[c].at = "fetching" => clock < sync[c].began + MaxFetch
  /\ clock' = clock + 1
  /\ UNCHANGED <<stamp, shown, kind, file, writers, sync, archive>>

(***************************************************************************)
(* A page of each client: what is read, where the next one starts, and     *)
(* whether there is a next one                                             *)
(***************************************************************************)
Listed == {i \in DOMAIN stamp : shown[i] > 0}
Since(from) == {i \in Listed : stamp[i] >= from}
Oldest(S) == {i \in S : Cardinality({j \in S : j < i}) < PageSize}
Newest(S) == {i \in S : Cardinality({j \in S : j > i}) < PageSize}
Page(read, next, more) == [read |-> read, next |-> next, more |-> more]

(* _fetch_fills: a full page is followed by one from its last time + 1.    *)
HyperliquidFills(since, next) ==
  LET page == Oldest(Since(IF next = None THEN since ELSE next)) IN
  IF Cardinality(page) < PageSize
  THEN Page(page, next, FALSE)
  ELSE Page(page, stamp[Max(page)] + 1, TRUE)

(* paged: `since` for the first page only, then from the exchange's cursor *)
ZeroOnePaged(since, next) ==
  LET left == IF next = None THEN Since(since) ELSE {i \in Listed : i >= next}
      page == Oldest(left)
  IN  IF left = page THEN Page(page, next, FALSE) ELSE Page(page, Min(left \ page), TRUE)

Before(next) == IF next = None THEN Listed ELSE {i \in Listed : i < next}

(* Newest first, to the first trade from before `since`.                   *)
PacificaTrades(since, next) ==
  LET page == Newest(Before(next))
      new == page \cap Since(since)
  IN  IF new = page /\ page # Before(next)
      THEN Page(new, Min(page), TRUE)
      ELSE Page(new, next, FALSE)

(* Page numbers, counted from the newest at the time of the request.       *)
RiseTradeHistory(since, next) ==
  LET offset == IF next = None THEN 0 ELSE next
      rest == {i \in Listed : Cardinality({j \in Listed : j > i}) >= offset}
      page == Newest(rest)
      new == page \cap Since(since)
  IN  Page(new, offset + PageSize, new = page /\ page # rest)

(* Newest first; the first order from `since` or before is still taken.    *)
NadoTrades(since, next) ==
  LET page == Newest(Before(next))
      old == {i \in page : stamp[i] <= since}
  IN  IF old = {} /\ Cardinality(page) = PageSize
      THEN Page(page, Min(page), TRUE)
      ELSE Page({i \in page : \A j \in old : i >= j}, next, FALSE)

(* The exchange applies `since`; offsets are counted from the newest.      *)
OmniFetchHistory(since, next) ==
  LET offset == IF next = None THEN 0 ELSE next
      rest == {i \in Since(since) : Cardinality({j \in Since(since) : j > i}) >= offset}
      page == Newest(rest)
  IN  Page(page, offset + PageSize, page # rest)

(* raw_positions: every time all there are.                                *)
EtherealRawPositions(since, next) ==
  LET page == Newest(Before(next))
  IN  IF page = Before(next) THEN Page(page, next, FALSE) ELSE Page(page, Min(page), TRUE)

PageOf(since, next) ==
  CASE kind \in {"hyena", "onyx"} -> HyperliquidFills(since, next)
    [] kind = "zero1" -> ZeroOnePaged(since, next)
    [] kind = "pacifica" -> PacificaTrades(since, next)
    [] kind = "rise" -> RiseTradeHistory(since, next)
    [] kind = "nado" -> NadoTrades(since, next)
    [] kind = "omni" -> OmniFetchHistory(since, next)
    [] kind = "ethereal" -> EtherealRawPositions(since, next)

(***************************************************************************)
(* A sync                                                                  *)
(***************************************************************************)
NeedsSync(last, ttl) == last = None \/ clock - last >= ttl

(* A file that cannot be read is removed, under a writer's hands if need   *)
(* be: what that one writes is lost with it.                               *)
Opens(c) ==
  /\ sync[c].at = "out"
  /\ kind \in Overlap \/ \A d \in Commands : sync[d].at = "out"
  /\ \E ttl \in {0, Ttl} : NeedsSync(file.data.last, ttl)
  /\ sync' = [sync EXCEPT ![c] = [Idle EXCEPT !.at = "fetching", !.data = file.data,
                !.more = TRUE, !.began = clock, !.asked = (kind # "onyx")]]
  /\ IF file.state = "torn" THEN file' = NoFile /\ writers' = {} ELSE UNCHANGED <<file, writers>>
  /\ UNCHANGED <<venue, archive>>

(* Broken: no lookback.                                                    *)
AsksFromLast(data) == data.last

AsksFrom(data) == IF data.last = None THEN None ELSE data.last - Lookback

Reads(c) ==
  LET s == sync[c]
      page == PageOf(AsksFrom(s.data), s.next)
  IN
  /\ s.at = "fetching" /\ s.more
  /\ sync' = [sync EXCEPT
       ![c].got = [i \in Ids |-> IF i \in page.read THEN shown[i] ELSE s.got[i]],
       ![c].next = page.next,
       ![c].more = page.more]
  /\ UNCHANGED <<venue, file, writers, archive>>

(* A page that is refused: 01 warns and keeps what it has.                 *)
ZeroOneGivesUp(c) ==
  /\ kind = "zero1"
  /\ sync[c].at = "fetching" /\ sync[c].more
  /\ sync' = [sync EXCEPT ![c].more = FALSE, ![c].data.holes = TRUE]
  /\ UNCHANGED <<venue, file, writers, archive>>

(* Everybody else raises, and the command ends.  With a file that cannot   *)
(* be opened for writing it goes on, but has stored nothing either.        *)
Fails(c) ==
  /\ sync[c].at = "fetching"
  /\ sync' = [sync EXCEPT ![c] = Idle]
  /\ UNCHANGED <<venue, file, writers, archive>>

(* Days of fills that BuilderArchive.sync still has to fetch.  A day that  *)
(* cannot be had is skipped, and for good once a later one was read, which *)
(* one without a file (403 or 404) is taken to be.                         *)
MissingDays == (archive.upto + 1)..(clock - ArchiveLag)

Synced(days, missing) ==
  IF days = {} THEN archive
  ELSE [upto |-> Max(days),
        keys |-> archive.keys \cup {i \in Listed : stamp[i] \in days \ missing}]

(* A save of the archive that fails is only warned of.                     *)
ArchiveSaved(synced) ==
  archive' \in IF synced = archive THEN {archive} ELSE {synced, archive, NoArchive}

(* Onyx asks for its filled orders; without an answer it takes there to be *)
(* none.                                                                   *)
Confirms(c) ==
  /\ sync[c].at = "fetching" /\ ~sync[c].asked
  /\ \E days, missing \in SUBSET MissingDays, filled \in SUBSET Doubtful :
       LET synced == Synced(days, missing)
           orders == {i \in Listed : i \in Doubtful => i \in filled}
       IN
       /\ \/ sync' = [sync EXCEPT ![c].asked = TRUE, ![c].oids = orders \cup synced.keys]
          \/ sync' = [sync EXCEPT ![c].asked = TRUE, ![c].oids = synced.keys,
                                  ![c].data.holes = TRUE]
       /\ ArchiveSaved(synced)
  /\ UNCHANGED <<venue, file, writers>>

(* fetch_fills of Onyx: only fills confirmed by an order or the archive.   *)
Fetched(s) ==
  [i \in Ids |-> IF kind = "onyx" /\ i \notin s.oids THEN 0 ELSE s.got[i]]

(* The key a record is stored by                                           *)
Key(i) == IF kind \in {"hyena", "onyx"} THEN HashOf[i] ELSE i

(* Broken: versions are added up.                                          *)
UpsertAdds(recs, new) == [i \in Ids |-> recs[i] + new[i]]

(* upsert: the last of the fetched records of a key replaces what there is *)
Upsert(recs, new) ==
  [i \in Ids |->
    LET same == {j \in Ids : Key(j) = Key(i) /\ new[j] > 0} IN
    IF same = {} THEN recs[i] ELSE IF i = Max(same) THEN new[i] ELSE 0]

(* upsert, update_sync_time and the beginning of save: the file is open    *)
(* and empty.                                                              *)
Saves(c) ==
  LET s == sync[c] IN
  /\ s.at = "fetching" /\ ~s.more /\ s.asked
  /\ sync' = [sync EXCEPT ![c] = [Idle EXCEPT !.at = "writing",
       !.data = [last |-> clock, recs |-> Upsert(s.data.recs, Fetched(s)),
                 holes |-> s.data.holes]]]
  /\ file' = Torn
  /\ writers' = writers \cup {c}
  /\ UNCHANGED <<venue, archive>>

(* The rest of save, unless the process dies or the disk is full.          *)
Writes(c) ==
  /\ sync[c].at = "writing"
  /\ file' \in {IF c \in writers THEN File("ok", sync[c].data) ELSE file, file}
  /\ writers' = writers \ {c}
  /\ sync' = [sync EXCEPT ![c] = Idle]
  /\ UNCHANGED <<venue, archive>>

Next ==
  \/ Happens
  \/ \E i \in Ids : Shows(i)
  \/ Tick
  \/ \E c \in Commands : \/ Opens(c) \/ Reads(c) \/ ZeroOneGivesUp(c) \/ Fails(c)
                         \/ Confirms(c) \/ Saves(c) \/ Writes(c)

Spec == Init /\ [][Next]_vars

(***************************************************************************)
(* Properties                                                              *)
(***************************************************************************)
Syncs ==
  [at : {"out", "fetching", "writing"}, data : Contents, got : [Ids -> 0..2],
   next : Nat \cup {None}, more : BOOLEAN, began : 0..MaxTime, asked : BOOLEAN, oids : SUBSET Ids]

TypeOK ==
  /\ clock \in 0..MaxTime
  /\ kind \in Kinds
  /\ stamp \in Seq(0..clock) /\ Len(stamp) <= Cardinality(Ids)
  /\ shown \in [Ids -> 0..2]
  /\ file \in [state : {"none", "torn", "ok"}, data : Contents]
  /\ sync \in [Commands -> Syncs]
  /\ writers \subseteq {c \in Commands : sync[c].at = "writing"}
  /\ archive \in [upto : None..MaxTime, keys : SUBSET Listed]
  /\ \A c \in Commands : sync[c].oids \subseteq Listed

(* A trade another one hides: one of the same transaction stored in its    *)
(* place (the hash is the key of Hyena and Onyx), or one of the same time  *)
(* at the end of a page (they ask on from the next millisecond).           *)
Hidden(i) ==
  /\ kind \in {"hyena", "onyx"}
  /\ \/ \E j \in Ids \ {i} : HashOf[j] = HashOf[i] /\ file.data.recs[j] > 0
     \/ \E j \in DOMAIN stamp : j < i /\ stamp[j] = stamp[i]

(* A trade of Onyx that its order does not confirm: fetch_fills leaves it  *)
(* out (onyx.py:320), and the archive has it too late for the lookback.    *)
Dropped(i) == kind = "onyx" /\ i \in Doubtful

(* Nothing is lost between syncs.  When the lookback of store.py covers    *)
(* the time the exchange needs to show a trade and the time a sync takes,  *)
(* the file holds the final version of every trade that was final when the *)
(* sync that wrote it began, whatever pages, failures, overlapping         *)
(* commands and torn files there were, but for the trades Hidden describes *)
(* or Onyx drops (Dropped) and for what 01 or Onyx were not told (holes).  *)
NothingLost ==
  (file.state = "ok" /\ ~file.data.holes /\ MaxLag + MaxFetch < Lookback) =>
    \A i \in DOMAIN stamp :
      stamp[i] + MaxLag < file.data.last - MaxFetch => file.data.recs[i] = 2 \/ Hidden(i) \/ Dropped(i)
=============================================================================
