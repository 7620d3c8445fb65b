------------------------------ MODULE Reports ------------------------------
(***************************************************************************)
(* What is printed from the stored files: the stats command of each app    *)
(* (src/apps/<exchange>.py, print_stats) and scripts/weekly.py, which adds *)
(* the same files up once more, by the periods of the exchange and by ISO  *)
(* weeks, and selects periods by a label that has no year.                 *)
(*                                                                         *)
(* Reports change no state: they are functions of the files of History, of *)
(* the points of each account and of the day.  A calendar has years of     *)
(* YearLen days and weeks of WeekLen days; ISO weeks are numbered through, *)
(* and one is in the year it begins in.  Amounts are integers.             *)
(***************************************************************************)
EXTENDS History, Functions

CONSTANTS
  DayOf,     (* tick of the clock -> the day it falls on                    *)
  WeekLen, YearLen,
  Genesis,   (* first day of week 1 of the exchange's points program        *)
  Deal,      (* trade -> its volume, pnl, fee, funding and trade id         *)
  TypeOf,    (* exchange, trade -> the file or type its record belongs to   *)
  Points,    (* account, first day of a period -> points earned in it       *)
  MakerFee, TakerFee  (* what get_fee_rates of 01 answers, per volume       *)

Accounts == {"mine", "hedge"}
Fills == {"maker", "taker"}

(* Days are counted from before last year; 01 alone has files by the role  *)
(* in a fill.                                                              *)
ASSUME ReportsAssumption ==
  /\ WeekLen \in Nat \ {0} /\ YearLen \in Nat /\ YearLen >= WeekLen
  /\ {Genesis, MakerFee, TakerFee} \subseteq Int
  /\ \A t \in 0..MaxTime : DayOf[t] \in Nat /\ DayOf[t] >= YearLen
  /\ \A s, t \in 0..MaxTime : s <= t => DayOf[s] <= DayOf[t]
  /\ \A i \in Ids : {Deal[i].vol, Deal[i].pnl, Deal[i].fee, Deal[i].fund} \subseteq Int
  /\ \A k \in Kinds \ {"zero1"}, i \in Ids : TypeOf[k][i] \notin Fills
  /\ \A acc \in Accounts :
       /\ IsFiniteSet(DOMAIN Points[acc])
       /\ \A d \in DOMAIN Points[acc] : d \in Nat /\ Points[acc][d] \in Int

now == DayOf[clock]

(***************************************************************************)
(* The rows of the files                                                   *)
(***************************************************************************)
(* An order or a position that is not final has its volume but no result   *)
(* yet; a transfer that is not confirmed has all.                          *)
Row(acc, i, version) ==
  [acc |-> acc, id |-> i, tid |-> Deal[i].tid, day |-> DayOf[stamp[i]],
   type |-> TypeOf[kind][i], confirmed |-> version = 2, vol |-> Deal[i].vol,
   pnl |-> IF version = 2 \/ kind = "omni" THEN Deal[i].pnl ELSE 0,
   fee |-> IF version = 2 THEN Deal[i].fee ELSE 0,
   fund |-> Deal[i].fund]

Mine == {Row("mine", i, file.data.recs[i]) : i \in {j \in Ids : file.data.recs[j] > 0}}

(* The other account of the pair took the other side of the first trade.   *)
Hedge ==
  IF 1 \in DOMAIN stamp
  THEN {[Row("hedge", 1, 2) EXCEPT !.pnl = -@, !.type = IF kind = "zero1" THEN "taker" ELSE @]}
  ELSE {}

Rows == Mine \cup Hedge
OfAccount(S, acc) == {r \in S : r.acc = acc}

Vol(S) == SumFunction([r \in S |-> r.vol])
Pnl(S) == SumFunction([r \in S |-> r.pnl])
Fee(S) == SumFunction([r \in S |-> r.fee])
Fund(S) == SumFunction([r \in S |-> r.fund])
EmulatedFee(S) ==
  SumFunction([r \in S |-> r.vol * (IF r.type = "maker" THEN MakerFee ELSE TakerFee)])

OfType(S, types) == {r \in S : r.type \in types}
Confirmed(S) == {r \in S : r.confirmed}

(***************************************************************************)
(* Periods                                                                 *)
(***************************************************************************)
(* The period of a day, and its last day: to_period_week.                  *)
PeriodNo(day) == (day - Genesis) \div WeekLen + 1
PeriodEnd(day) == Genesis + PeriodNo(day) * WeekLen - 1
Label(day) ==
  [no |-> IF PeriodNo(day) <= 0 THEN 0 ELSE PeriodNo(day), end |-> PeriodEnd(day) % YearLen]

IsoWeek(day) == day \div WeekLen
Year(day) == day \div YearLen

(* Rows under a label, by the periods of the exchange or by ISO weeks      *)
In(S, l) == {r \in S : Label(r.day) = l}
InWeek(S, w) == {r \in S : IsoWeek(r.day) = w}
Sums(vol, burn) == [vol |-> vol, burn |-> burn]
NoSums == Sums(0, 0)

(***************************************************************************)
(* print_stats of the apps: a row of an account in a period, and whether   *)
(* it is shown                                                             *)
(***************************************************************************)
AppRow(shown_, trades, vol, burn, fee) ==
  [shown |-> shown_, trades |-> trades, vol |-> vol, burn |-> burn, fee |-> fee]

EtherealRow(S, pts) ==
  AppRow(S # {} \/ pts >= 1, Cardinality(S), Vol(S), -(Pnl(S) - Fee(S) - Fund(S)), Fee(S))
HyenaRow(S, pts) == AppRow(S # {} \/ pts # 0, Cardinality(S), Vol(S), -Pnl(S), Fee(S))
NadoRow(S, pts) ==
  AppRow(S # {} \/ pts # 0, Cardinality(S), Vol(S), -(Pnl(S) - Fee(S)), Fee(S))
OmniRow(S, pts) ==
  LET trades == OfType(Confirmed(S), {"trade"})
      transfers == OfType(Confirmed(S), {"funding", "realized_pnl"})
  IN  AppRow(trades \cup transfers # {} \/ pts # 0,
             Cardinality(trades), Vol(trades), -Pnl(transfers), 0)
OnyxRow(S, pts) == AppRow(S # {} \/ pts # 0, Cardinality(S), Vol(S), -Pnl(S), Fee(S))
PacificaRow(S, pts) == AppRow(S # {} \/ pts # 0, Cardinality(S), Vol(S), -Pnl(S), Fee(S))
RiseRow(S, pts) == AppRow(Vol(S) # 0 \/ Pnl(S) # 0, Cardinality(S), Vol(S), -Pnl(S), Fee(S))

(* 01 has the fee of a trade from today's rates.                           *)
ZeroOneRow(S, pts) ==
  LET trades == OfType(S, Fills)
      result == Pnl(OfType(S, {"pnl"})) + Fund(OfType(S, {"funding"})) - EmulatedFee(trades)
  IN  AppRow(Vol(trades) # 0 \/ pts # 0, Cardinality(trades), Vol(trades), -result,
             EmulatedFee(trades))

(* Rise has no points.                                                     *)
PointsOf(acc, l) ==
  IF kind = "rise" THEN 0
  ELSE SumFunctionOnSet(Points[acc], {d \in DOMAIN Points[acc] : d <= now /\ Label(d) = l})

PrintStats(acc, l) ==
  LET S == In(OfAccount(Rows, acc), l)
      pts == PointsOf(acc, l)
  IN  CASE kind = "ethereal" -> EtherealRow(S, pts)
        [] kind = "hyena" -> HyenaRow(S, pts)
        [] kind = "nado" -> NadoRow(S, pts)
        [] kind = "omni" -> OmniRow(S, pts)
        [] kind = "onyx" -> OnyxRow(S, pts)
        [] kind = "pacifica" -> PacificaRow(S, pts)
        [] kind = "rise" -> RiseRow(S, pts)
        [] kind = "zero1" -> ZeroOneRow(S, pts)

(***************************************************************************)
(* The extractors of scripts/weekly.py: the rows of a period, all accounts *)
(***************************************************************************)
(* Broken: the fee is forgotten.                                           *)
NadoStatsGross(S) == Sums(Vol(S), -Pnl(S))

EtherealStats(S) == Sums(Vol(S), -(Pnl(S) - Fee(S) - Fund(S)))
NadoStats(S) == Sums(Vol(S), -(Pnl(S) - Fee(S)))
OmniStats(S) ==
  Sums(Vol(OfType(Confirmed(S), {"trade"})),
       -Pnl(OfType(Confirmed(S), {"funding", "realized_pnl"})))
PacificaStats(S) == Sums(Vol(S), -Pnl(S))
HyenaStats(S) == Sums(Vol(S), -Pnl(S))
OnyxStats(S) == Sums(Vol(S), -Pnl(S) + Fee(S))
RiseStats(S) == Sums(Vol(S), -Pnl(S))

(* Trades of 01 are counted once per trade id, maker files first; a stored *)
(* trade has no fee.                                                       *)
Seen(S) == {r \in OfType(S, {"taker"}) : \E m \in OfType(Rows, {"maker"}) : m.tid = r.tid}
ZeroOneStats(S) ==
  Sums(Vol(OfType(S, Fills) \ Seen(S)),
       -Pnl(OfType(S, {"pnl"})) - Fund(OfType(S, {"funding"})))

WeeklyStats(l) ==
  LET S == In(Rows, l) IN
  CASE kind = "ethereal" -> EtherealStats(S)
    [] kind = "hyena" -> HyenaStats(S)
    [] kind = "nado" -> NadoStats(S)
    [] kind = "omni" -> OmniStats(S)
    [] kind = "onyx" -> OnyxStats(S)
    [] kind = "pacifica" -> PacificaStats(S)
    [] kind = "rise" -> RiseStats(S)
    [] kind = "zero1" -> ZeroOneStats(S)

EtherealBurn(S) == Sums(Vol(S), -(Pnl(S) - Fee(S) - Fund(S)))
HyenaBurn(S) == Sums(Vol(S), -Pnl(S))
NadoBurn(S) == Sums(Vol(S), -(Pnl(S) - Fee(S)))
OmniBurn(S) ==
  Sums(Vol(OfType(Confirmed(S), {"trade"})),
       -Pnl(OfType(Confirmed(S), {"funding", "realized_pnl"})))
OnyxBurn(S) == Sums(Vol(S), -(Pnl(S) - Fee(S)))
PacificaBurn(S) == Sums(Vol(S), -Pnl(S))
RiseBurn(S) == Sums(Vol(S), -Pnl(S))
ZeroOneBurn(S) ==
  Sums(Vol(OfType(S, Fills) \ Seen(S)),
       -Pnl(OfType(S, {"pnl"})) - Fund(OfType(S, {"funding"})))

BurnWeeks(w) ==
  LET S == InWeek(Rows, w) IN
  CASE kind = "ethereal" -> EtherealBurn(S)
    [] kind = "hyena" -> HyenaBurn(S)
    [] kind = "nado" -> NadoBurn(S)
    [] kind = "omni" -> OmniBurn(S)
    [] kind = "onyx" -> OnyxBurn(S)
    [] kind = "pacifica" -> PacificaBurn(S)
    [] kind = "rise" -> RiseBurn(S)
    [] kind = "zero1" -> ZeroOneBurn(S)

(* The periods that have rows, and points                                  *)
StatsLabels == {Label(r.day) : r \in Rows}
PtsMap(l) == SumFunction([acc \in Accounts |-> PointsOf(acc, l)])
PtsOf(labels) == SumFunction([l \in labels |-> PtsMap(l)])
PtsLabels ==
  {Label(d) : d \in {x \in UNION {DOMAIN Points[acc] : acc \in Accounts} :
                       x <= now /\ kind # "rise"}}

(***************************************************************************)
(* The selection of periods in scripts/weekly.py                           *)
(***************************************************************************)
(* The ISO weeks in which a label may end, for want of a year              *)
PeriodEndWeeks(l) ==
  {IsoWeek((Year(now) + k) * YearLen + l.end) : k \in {-1, 0, 1}}

AnyWeek == -1

LabelInWeeks(l, from, to) ==
  \E w \in PeriodEndWeeks(l) : (from = AnyWeek \/ w >= from) /\ (to = AnyWeek \/ w <= to)

ReportWeeks(labels) == {w \in UNION {PeriodEndWeeks(l) : l \in labels} : w <= IsoWeek(now)}

(* Broken: one week too far back.                                          *)
OffsetFromEnd(weeks, back) ==
  IF Cardinality(weeks) <= back + 1 THEN AnyWeek
  ELSE CHOOSE w \in weeks : Cardinality({v \in weeks : v > w}) = back + 1

(* -N: the week that N later ones follow; without one, no bound at all     *)
OffsetWeek(weeks, back) ==
  IF Cardinality(weeks) <= back THEN AnyWeek
  ELSE CHOOSE w \in weeks : Cardinality({v \in weeks : v > w}) = back

HasData(l) == WeeklyStats(l) # NoSums \/ PtsMap(l) # 0

(* report_view: the periods it adds up, and the totals of its row          *)
ReportLabels(from, to) ==
  {l \in StatsLabels \cup PtsLabels : LabelInWeeks(l, from, to) /\ HasData(l)}

BonusLabels(selected) == {l \in PtsLabels : l.no = 0 /\ l \notin selected}
ReportRow(from, to, bonus) ==
  LET labels == ReportLabels(from, to) IN
  [vol |-> SumFunction([l \in labels |-> WeeklyStats(l).vol]),
   burn |-> SumFunction([l \in labels |-> WeeklyStats(l).burn]),
   pts |-> PtsOf(labels)
           + (IF bonus THEN PtsOf(BonusLabels(labels)) ELSE 0)]

(* exchange_view: with points, only the periods that have some; without    *)
(* any, those of Hyena, Onyx and Rise that are over.                       *)
AvailableLabels ==
  LET withPts == {l \in PtsLabels : PtsMap(l) > 0}
      over == {l \in StatsLabels : l.no # 0 /\ l.no < Label(now).no}
  IN  IF PtsLabels # {} THEN (IF withPts # {} THEN withPts ELSE PtsLabels)
      ELSE IF kind \in {"hyena", "onyx", "rise"} /\ over # {} THEN over
      ELSE StatsLabels

ExchangeView(from, to) ==
  {l \in AvailableLabels :
     LabelInWeeks(l, from, to) /\ HasData(l)}

(***************************************************************************)
(* Properties, of every file that can be read                              *)
(***************************************************************************)
Readable == file.state = "ok" /\ \A c \in Commands : sync[c].at = "out"
Days == {r.day : r \in Rows}
        \cup {d \in UNION {DOMAIN Points[acc] : acc \in Accounts} : d <= now /\ kind # "rise"}
Labels == {Label(d) : d \in Days}

(* The two programs agree on every period, apart from what they are known  *)
(* to differ in: weekly.py takes the fee off for Onyx and does not for 01, *)
(* where it counts a trade between two accounts of the user once; stats of *)
(* 01 hides the funding of an account that did not trade in the period.    *)
ReportsAgree ==
  Readable => \A l \in Labels :
    LET row == [acc \in Accounts |-> PrintStats(acc, l)]
        rows == {acc \in Accounts : row[acc].shown}
        vol == SumFunction([acc \in rows |-> row[acc].vol])
        burn == SumFunction([acc \in rows |-> row[acc].burn])
        fee == SumFunction([acc \in rows |-> row[acc].fee])
        hidden == {r \in In(Rows, l) : r.acc \notin rows}
    IN
    /\ WeeklyStats(l).vol = vol - Vol(Seen(In(Rows, l)))
    /\ WeeklyStats(l).burn =
         CASE kind = "onyx" -> burn + fee
           [] kind = "zero1" -> burn - fee - Pnl(OfType(hidden, {"pnl"}))
                                - Fund(OfType(hidden, {"funding"}))
           [] OTHER -> burn

(* The pivot of --burn moves no amount between exchanges and loses none:   *)
(* by ISO weeks and by the exchange's own periods the sums are the same,   *)
(* drafts and unconfirmed transfers included.                              *)
PivotAgrees ==
  LET weeks == {IsoWeek(r.day) : r \in Rows} IN
  Readable =>
    /\ SumFunction([w \in weeks |-> BurnWeeks(w).vol])
         = SumFunction([l \in StatsLabels |-> WeeklyStats(l).vol])
    /\ SumFunction([w \in weeks |-> BurnWeeks(w).burn])
         = SumFunction([l \in StatsLabels |-> WeeklyStats(l).burn])

(* All periods ended within a year, a week less, of the end of the present *)
(* one, so that their dates say when, and the weeks of which a label can   *)
(* mean no other: a year before that end, another period may have ended.   *)
Recent == \A d \in Days : PeriodEnd(d) >= PeriodEnd(now) - YearLen + WeekLen
RecentWeeks == (IsoWeek(PeriodEnd(now) - YearLen) + 1)..IsoWeek(now)
EndedIn(weeks) == {Label(d) : d \in {x \in Days : IsoWeek(PeriodEnd(x)) \in weeks}}

(* --from with --to selects the periods that end between them, though each *)
(* label is tried in three years.                                          *)
RangeExact ==
  (Readable /\ Recent) =>
    \A from, to \in RecentWeeks :
      ReportLabels(from, to) = EndedIn(from..to) \cap {l \in Labels : HasData(l)}

(* -N shows the periods that ended in the Nth latest week in which any     *)
(* did, if there were so many, though ReportWeeks has other weeks too.     *)
OffsetExact ==
  LET weeks == ReportWeeks(Labels)
      ends == {IsoWeek(PeriodEnd(d)) : d \in Days} \cap RecentWeeks
  IN
  (Readable /\ Recent) =>
    \A back \in 0..(Cardinality(ends) - 1) :
      LET week == OffsetWeek(weeks, back) IN
      /\ Cardinality({w \in ends : w > week}) = back
      /\ ReportLabels(week, week) = EndedIn({week}) \cap {l \in Labels : HasData(l)}

(* The reports of the single weeks add up to the report of all, and the    *)
(* bonus points are in that one already.                                   *)
WeeksAddUp ==
  LET weeks == {IsoWeek(PeriodEnd(d)) : d \in Days}
      row == [w \in weeks |-> ReportRow(w, w, FALSE)]
      all == ReportRow(AnyWeek, AnyWeek, FALSE)
  IN
  (Readable /\ Recent) =>
    /\ SumFunction([w \in weeks |-> row[w].vol]) = all.vol
    /\ SumFunction([w \in weeks |-> row[w].burn]) = all.burn
    /\ SumFunction([w \in weeks |-> row[w].pts]) = all.pts
    /\ ReportRow(AnyWeek, AnyWeek, TRUE) = all
    /\ UNION {ExchangeView(w, w) : w \in weeks} = ExchangeView(AnyWeek, AnyWeek)

(* However the stored records are added up, by exchange, by period or by   *)
(* ISO week, by the apps or by weekly.py, nothing is counted twice or lost.*)
SumsAgree == ReportsAgree /\ PivotAgrees /\ WeeksAddUp

(* Selected by both bounds or by -N, the periods are shown that were asked *)
(* for.                                                                    *)
SelectionExact == RangeExact /\ OffsetExact
=============================================================================
