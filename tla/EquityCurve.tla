---------------------------- MODULE EquityCurve ----------------------------
(***************************************************************************)
(* The equity curve of the dashboard: the window of snapshots a timeline   *)
(* selects (lib/stat-window.ts), thinned to a number of points by          *)
(* equitySeries (lib/queries.ts), and the drawdown read off it             *)
(* (app/dashboard/page.tsx).  The supervisor appends snapshots in time     *)
(* order; time passes in hours.                                            *)
(***************************************************************************)
EXTENDS Integers, Sequences, FiniteSetsExt

CONSTANTS Equities,   \* book values a snapshot can carry
          Windows,    \* hours of the timelines; all time is a long one
          POINTS,     \* points a curve is thinned to
          MaxSnaps, MaxHour   \* bounds

VARIABLES snaps,   \* rows of equity_snapshots
          hour

curveVars == <<snaps, hour>>

-----------------------------------------------------------------------------
(* windowSinceISO: the lower bound of a timeline.                          *)
Since(w) == hour - w

(* The rows the where clause keeps.  They were written in time order, so   *)
(* the ones it leaves out come first.                                      *)
LeftOut(since) == Cardinality({i \in DOMAIN snaps : ~(snaps[i].hour >= since)})
InWindow(since) == SubSeq(snaps, LeftOut(since) + 1, Len(snaps))

(* Mutant: the stride is rounded down.                                     *)
StrideDown(cnt) == IF cnt \div POINTS < 1 THEN 1 ELSE cnt \div POINTS
Stride(cnt) == IF (cnt + POINTS - 1) \div POINTS < 1 THEN 1
               ELSE (cnt + POINTS - 1) \div POINTS

Kept(cnt) == {r \in 1 .. cnt : cnt <= POINTS \/ (r - 1) % Stride(cnt) = 0}

(* A curve as the row numbers it keeps, with the rows it is drawn from.    *)
equitySeries(since) == [rows |-> InWindow(since), kept |-> Kept(Len(InWindow(since)))]

(* dashboard/page.tsx: the running peak and the deepest fall below it, a   *)
(* fraction of the peak kept as <<fall, peak>>; a book at or below zero    *)
(* has no fall.                                                            *)
Deeper(a, b) == IF b[1] * a[2] > a[1] * b[2] THEN b ELSE a

(* Mutant: the fall is measured from the point before.                     *)
PeakBefore(v, kept, r) == IF r = 1 THEN v[r].equity ELSE v[r - 1].equity
Peak(v, kept, r) == Max({v[q].equity : q \in {p \in kept : p <= r}})

Fall(v, kept, r) == IF Peak(v, kept, r) > 0
                    THEN <<Peak(v, kept, r) - v[r].equity, Peak(v, kept, r)>>
                    ELSE <<0, 1>>

maxDD(c) ==
  FoldSet(LAMBDA r, deepest : Deeper(deepest, Fall(c.rows, c.kept, r)), <<0, 1>>, c.kept)

-----------------------------------------------------------------------------
snapshot(v) ==
  /\ Len(snaps) < MaxSnaps
  /\ snaps' = Append(snaps, [hour |-> hour, equity |-> v])
  /\ UNCHANGED hour

HourPasses == hour < MaxHour /\ hour' = hour + 1 /\ UNCHANGED snaps

CurveInit == snaps = <<>> /\ hour = 0
CurveNext == HourPasses \/ \E v \in Equities : snapshot(v)
CurveSpec == CurveInit /\ [][CurveNext]_curveVars

-----------------------------------------------------------------------------
CurveTypeOK ==
  /\ \A i \in DOMAIN snaps : snaps[i].equity \in Equities /\ snaps[i].hour \in 0 .. hour
  /\ hour \in 0 .. MaxHour

(* A window holds the rows of its hours and no others.                     *)
WindowIsExact ==
  \A w \in Windows : \A i \in DOMAIN snaps :
    snaps[i].hour >= Since(w) <=> i > Len(snaps) - Len(InWindow(Since(w)))

(* A thinned curve stays a curve of the window: no more points than asked  *)
(* for, the first row among them, and no stretch longer than a stride left *)
(* out, the end included.                                                  *)
CurveSpans ==
  \A w \in Windows :
    LET c == equitySeries(Since(w))  n == Len(c.rows)
    IN /\ Cardinality(c.kept) <= POINTS
       /\ n > 0 => 1 \in c.kept
       /\ \A r \in 1 .. n : \E q \in c.kept : q <= r /\ r - q < (n + POINTS - 1) \div POINTS + 1

(* The drawdown on the page is the worst fall between two points of the    *)
(* curve that is drawn, from a book above zero to a later, lower point not *)
(* below zero (a fall of more than the whole book may hide a deeper one).  *)
DrawdownIsWorstFall ==
  \A w \in Windows :
  LET c == equitySeries(Since(w))  m == maxDD(c)
  IN /\ m[1] = 0 \/ \E q, r \in c.kept : /\ q <= r /\ m[2] = c.rows[q].equity
                                         /\ m[1] = c.rows[q].equity - c.rows[r].equity
     /\ \A q, r \in c.kept :
          q <= r /\ c.rows[q].equity > 0 /\ c.rows[r].equity >= 0 =>
            (c.rows[q].equity - c.rows[r].equity) * m[2] <= m[1] * c.rows[q].equity

=============================================================================
