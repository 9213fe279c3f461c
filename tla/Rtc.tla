-------------------------------- MODULE Rtc --------------------------------
(***************************************************************************)
(* date(): cmostime() of lapic.c reads the real time clock, register by    *)
(* register, while the clock goes on.                                      *)
(*                                                                         *)
(* The clock is external.  Once a second it raises UIP, changes its        *)
(* registers and clears UIP; what a register shows in the meantime is      *)
(* undefined.  An attempt of the loop takes far less than a second, so at  *)
(* most one update falls into it: this is what the code relies on.         *)
(***************************************************************************)
EXTENDS Naturals, Sequences

CONSTANT Limits          \* the number of values of each register, seconds first

Reg    == DOMAIN Limits
Time   == {t \in [Reg -> 0 .. Limits[1]] : \A r \in Reg : t[r] < Limits[r]}

VARIABLES
  now,                   \* the time, a value for each register
  binary,                \* bit 2 of CMOS_STATB: the registers are not in BCD
  uip,                   \* bit 7 of CMOS_STATA: update in progress
  updated,               \* an update falls into this attempt
  at,                    \* where cmostime() is
  t1, t2,                \* what it has read so far
  seen,                  \* the times since the call
  date                   \* what it has returned

clock == <<now, uip>>
vars  == <<clock, binary, updated, at, t1, t2, seen, date>>

TypeOK ==
  /\ now \in Time /\ binary \in BOOLEAN /\ uip \in BOOLEAN /\ updated \in BOOLEAN
  /\ at \in {"user", "t1", "uip", "t2", "compare", "done"}
  /\ seen \subseteq Time /\ Len(t1) <= Len(Limits) /\ Len(t2) <= Len(Limits)

Init ==
  /\ now \in Time /\ binary \in BOOLEAN /\ uip = FALSE /\ updated = FALSE
  /\ at = "user" /\ t1 = <<>> /\ t2 = <<>> /\ seen = {} /\ date = <<>>

-----------------------------------------------------------------------------
\* One second later: a register changes when those before it wrap.
Later(t) ==
  [r \in Reg |-> IF \A q \in 1 .. r - 1 : t[q] = Limits[q] - 1 THEN (t[r] + 1) % Limits[r] ELSE t[r]]

BeginUpdate ==
  /\ ~uip /\ ~updated
  /\ uip' = TRUE /\ updated' = (at \notin {"user", "done"})
  /\ UNCHANGED <<now, binary, at, t1, t2, seen, date>>

EndUpdate ==
  /\ uip /\ uip' = FALSE /\ now' = Later(now)
  /\ seen' = IF at = "user" THEN {} ELSE seen \cup {Later(now)}
  /\ UNCHANGED <<binary, updated, at, t1, t2, date>>

Stored(v) == IF binary THEN v ELSE (v \div 10) * 16 + (v % 10)

\* What register r may give.
cmos_read(r) == {Stored(v) : v \in IF uip THEN 0 .. Limits[r] - 1 ELSE {now[r]}}

-----------------------------------------------------------------------------
\* fill_rtcdate(), one register at a time: t is filled, and next comes then.
fill_rtcdate(t, next) ==
  /\ \E x \in cmos_read(Len(t) + 1) : t' = Append(t, x)
  /\ at' = IF Len(t) + 1 = Len(Limits) THEN next ELSE at
  /\ UNCHANGED <<clock, binary, updated, seen, date>>

\* An attempt begins.
Attempt == at' = "t1" /\ t1' = <<>> /\ t2' = <<>> /\ updated' = uip

cmostime == at = "user" /\ Attempt /\ seen' = {now} /\ UNCHANGED <<clock, binary, date>>

fill_t1 == at = "t1" /\ fill_rtcdate(t1, "uip") /\ UNCHANGED t2
fill_t2 == at = "t2" /\ fill_rtcdate(t2, "compare") /\ UNCHANGED t1

testUIP ==
  /\ at = "uip"
  /\ IF uip THEN Attempt ELSE at' = "t2" /\ UNCHANGED <<t1, t2, updated>>
  /\ UNCHANGED <<clock, binary, seen, date>>

\* CONV() of every register.
Converted(t) == [r \in Reg |-> IF binary THEN t[r] ELSE (t[r] \div 16) * 10 + (t[r] % 16)]

\* Mutant: one reading is as good as two.
OneWillDo(t, u) == TRUE

memcmp(t, u) == t = u

compare ==
  /\ at = "compare"
  /\ IF memcmp(t1, t2)
     THEN /\ at' = "done" /\ date' = Converted(t1)
          /\ t1' = <<>> /\ t2' = <<>> /\ updated' = FALSE
     ELSE Attempt /\ UNCHANGED date
  /\ UNCHANGED <<clock, binary, seen>>

return ==
  /\ at = "done" /\ at' = "user" /\ date' = <<>> /\ seen' = {}
  /\ UNCHANGED <<clock, binary, updated, t1, t2>>

Next == BeginUpdate \/ EndUpdate \/ cmostime \/ fill_t1 \/ testUIP \/ fill_t2 \/ compare \/ return

Spec == Init /\ [][Next]_vars

-----------------------------------------------------------------------------
\* date() returns a time that it was between the call and the return, however
\* the clock's updates fall between the reads of cmostime().
DateWasShown == at = "done" => date \in seen
=============================================================================
