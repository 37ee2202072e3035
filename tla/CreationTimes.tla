---------------------------- MODULE CreationTimes ----------------------------
(***************************************************************************)
(* formatTime and ORDER BY created_at (internal/queue/store.go): jobs are  *)
(* leased in the order of their creation times as text.  RFC3339Nano       *)
(* writes as many digits of the second as are needed.                      *)
(*                                                                         *)
(* A time is its second, whose text has a fixed width, and the digits of   *)
(* its fraction (nine in Go).                                              *)
(***************************************************************************)
EXTENDS SequencesExt

CONSTANTS Seconds, Digits, Width

VARIABLES
  older, newer,  \* the times of two jobs, in the order they were created
  texts,         \* their created_at columns
  leased         \* which LeaseNext takes: "none", "older", "newer" or "either"

timesVars == <<older, newer, texts, leased>>

ASSUME TimesAssumption == Seconds \subseteq Nat /\ Digits \subseteq 0 .. 9 /\ Width \in Nat

Time == [second: Seconds, fraction: [1 .. Width -> Digits]]

\* The first place where two sequences differ decides.
Before(s, t) ==
  \E n \in DOMAIN t :
    /\ \A i \in 1 .. n - 1 : i \in DOMAIN s /\ s[i] = t[i]
    /\ n \in DOMAIN s => s[n] < t[n]

Earlier(a, b) == Before(<<a.second>> \o a.fraction, <<b.second>> \o b.fraction)

TimesInit ==
  /\ older \in Time /\ newer \in Time /\ Earlier(older, newer)
  /\ texts = <<>> /\ leased = "none"

\* The bytes of a text in their order: "." before the digits before "Z".
Dot == -1
Zed == 10

\* The fraction without its trailing zeros.
Trimmed(fraction) ==
  SubSeq(fraction, 1, Max({0} \cup {i \in DOMAIN fraction : fraction[i] # 0}))

\* Mutant: the layout is RFC3339, which has no fraction.
FormatSecond(t) == <<t.second, Zed>>

\* formatTime
FormatTime(t) ==
  <<t.second>> \o (IF Trimmed(t.fraction) = <<>> THEN <<>> ELSE <<Dot>> \o Trimmed(t.fraction))
               \o <<Zed>>

\* CreateJob writes both.
Write ==
  /\ texts = <<>>
  /\ texts' = <<FormatTime(older), FormatTime(newer)>>
  /\ UNCHANGED <<older, newer, leased>>

\* LeaseNext: ORDER BY created_at LIMIT 1.
Lease ==
  /\ texts # <<>> /\ leased = "none"
  /\ leased' = IF texts[1] = texts[2] THEN "either"
               ELSE IF Before(texts[1], texts[2]) THEN "older" ELSE "newer"
  /\ UNCHANGED <<older, newer, texts>>

TimesSpec == TimesInit /\ [][Write \/ Lease]_timesVars

-----------------------------------------------------------------------------
(* Properties                                                              *)

\* The older job is leased, unless both are of one second and the digits of the
\* older begin those of the newer: then the newer is, always.  Two times never
\* have the same text.
LeasesOlder ==
  leased # "none" =>
    leased = IF /\ older.second = newer.second
                /\ IsStrictPrefix(Trimmed(older.fraction), Trimmed(newer.fraction))
             THEN "newer" ELSE "older"

\* The inductive invariant: the texts are those of the two times.
TimesIInv ==
  /\ older \in Time /\ newer \in Time /\ Earlier(older, newer)
  /\ texts \in {<<>>, <<FormatTime(older), FormatTime(newer)>>}
  /\ LeasesOlder
=============================================================================
