--------------------------- MODULE TerminalProofs ---------------------------
(***************************************************************************)
(* The terminals: every session has one name, its end is noticed, and what *)
(* its viewer is sent has no hole; a persistent service survives.  For any *)
(* connections, terminal ids, buffer sizes and number of events.           *)
(***************************************************************************)
EXTENDS TerminalService, FiniteSetTheorems, WellFoundedInduction, TLAPS

-----------------------------------------------------------------------------
(* Sequences.                                                              *)

(* The last n elements.                                                    *)
LEMMA LastOfOK ==
    ASSUME NEW q \in Seq(Nat), NEW n \in Nat \ {0}
    PROVE  /\ LastOf(q, n) \in Seq(Nat)
           /\ Len(LastOf(q, n)) = IF Len(q) <= n THEN Len(q) ELSE n
           /\ \A k \in 1..Len(LastOf(q, n)) :
                 LastOf(q, n)[k] = q[Len(q) - Len(LastOf(q, n)) + k]
  <1>1. CASE Len(q) <= n
    BY <1>1 DEF LastOf
  <1>2. CASE ~(Len(q) <= n)
    <2> DEFINE m == Len(q) - n + 1
               r == SubSeq(q, m, Len(q))
    <2>1. m \in 1..Len(q) /\ Len(q) - m + 1 = n
      BY <1>2
    <2>2. r \in Seq(Nat) /\ Len(r) = n
      BY <2>1
    <2>3. \A k \in 1..n : r[k] = q[m + k - 1]
      BY <2>1
    <2>4. LastOf(q, n) = r
      BY <1>2 DEF LastOf
    <2>5. \A k \in 1..n : m + k - 1 = Len(q) - n + k
      BY <2>1
    <2>6. \A k \in 1..n : r[k] = q[Len(q) - n + k]
      BY <2>3, <2>5
    <2> HIDE DEF m, r
    <2>7. \A k \in 1..Len(r) : r[k] = q[Len(q) - Len(r) + k]
      BY <2>2, <2>6
    <2>8. Len(r) = IF Len(q) <= n THEN Len(q) ELSE n
      BY <1>2, <2>2
    <2> QED
      BY <2>2, <2>4, <2>7, <2>8
  <1> QED
    BY <1>1, <1>2

(* The end of a run is a run that ends with the same number.               *)
LEMMA RunLast ==
    ASSUME NEW q \in Seq(Nat), NEW n \in Nat \ {0}, NEW m \in Nat, Len(q) <= m,
           Run(q, m - Len(q))
    PROVE  Run(LastOf(q, n), m - Len(LastOf(q, n)))
  <1> DEFINE r == LastOf(q, n)
  <1>1. /\ r \in Seq(Nat) /\ Len(r) <= Len(q)
        /\ \A k \in 1..Len(r) : r[k] = q[Len(q) - Len(r) + k]
    BY LastOfOK
  <1> HIDE DEF r
  <1>2. Len(r) \in Nat /\ Len(q) \in Nat
    BY <1>1
  <1> SUFFICES ASSUME NEW k \in 1..Len(r) PROVE r[k] = m - Len(r) + k
    BY DEF Run, r
  <1>3. Len(q) - Len(r) + k \in 1..Len(q)
    BY <1>1, <1>2
  <1>4. q[Len(q) - Len(r) + k] = (m - Len(q)) + (Len(q) - Len(r) + k)
    BY <1>3 DEF Run
  <1> QED
    BY <1>1, <1>2, <1>4

(* A run goes on with the next number.                                     *)
LEMMA RunAppend ==
    ASSUME NEW q \in Seq(Nat), NEW m \in Int, Run(q, m), NEW n \in Nat, n = m + Len(q) + 1
    PROVE  Run(Append(q, n), m)
  BY DEF Run

LEMMA ConcatAppend ==
    ASSUME NEW q \in Seq(Nat), NEW r \in Seq(Nat), NEW n \in Nat
    PROVE  /\ q \o Append(r, n) = Append(q \o r, n)
           /\ q \o r \in Seq(Nat) /\ Len(q \o r) = Len(q) + Len(r)
           /\ Len(Append(q \o r, n)) = Len(q \o r) + 1
  <1>1. q \o r \in Seq(Nat) /\ Len(q \o r) = Len(q) + Len(r)
    OBVIOUS
  <1>2. Append(r, n) \in Seq(Nat) /\ Len(Append(r, n)) = Len(r) + 1
    OBVIOUS
  <1>3. Append(q \o r, n) \in Seq(Nat) /\ Len(Append(q \o r, n)) = Len(q) + Len(r) + 1
    BY <1>1
  <1>4. q \o Append(r, n) = Append(q \o r, n)
    OBVIOUS
  <1> QED
    BY <1>1, <1>2, <1>3, <1>4

LEMMA ConcatEmpty ==
    ASSUME NEW q \in Seq(Nat)
    PROVE  q \o <<>> = q /\ <<>> \in Seq(Nat) /\ Len(<<>>) = 0
  OBVIOUS

-----------------------------------------------------------------------------
(* What the steps do to one session.                                       *)
SessionOK(s) ==
    /\ s \in Session
    /\ Len(s.chan) <= ChannelSize
    /\ Len(s.buffer) <= Recent
    /\ Len(s.pending) <= Recent
    /\ Continuous(s)
    /\ ~s.gap

LEMMA Sizes == ChannelSize \in Nat \ {0} /\ Recent \in Nat \ {0}
  BY TerminalAssumption

LEMMA NewSessionOK == \A c \in Conn : SessionOK(NewSession(c))
  <1> SUFFICES ASSUME NEW c \in Conn PROVE SessionOK(NewSession(c))
    OBVIOUS
  <1>1. NewSession(c) \in Session
    BY DEF NewSession, Session
  <1>2. Continuous(NewSession(c))
    BY Sizes DEF NewSession, Continuous, Run
  <1> QED
    BY <1>1, <1>2, Sizes DEF NewSession, SessionOK

LEMMA StoppedOK == \A s \in Session : SessionOK(s) => SessionOK(Stopped(s))
  <1> SUFFICES ASSUME NEW s \in Session, SessionOK(s) PROVE SessionOK(Stopped(s))
    OBVIOUS
  <1>0. s.viewer \in Conn /\ s.gap \in BOOLEAN /\ ~s.gap
    BY DEF SessionOK, Session
  <1>1. /\ Stopped(s).chan = <<>> /\ Stopped(s).buffer = <<>> /\ Stopped(s).pending = <<>>
        /\ Stopped(s).made = 0 /\ Stopped(s).state = "Closed"
        /\ Stopped(s).gap = s.gap
    BY DEF Stopped, NewSession
  <1>2. Stopped(s) \in Session
    <2>1. NewSession(s.viewer) \in Session
      BY <1>0, NewSessionOK DEF SessionOK
    <2> QED
      BY <1>0, <2>1 DEF Stopped, Session
  <1>3. Continuous(Stopped(s))
    BY <1>1, Sizes DEF Continuous, Run
  <1> QED
    BY <1>0, <1>1, <1>2, <1>3, Sizes DEF SessionOK

(* Changes that do not touch the output.                                   *)
LEMMA MarkedOK ==
    ASSUME NEW s \in Session, SessionOK(s)
    PROVE  /\ SessionOK([s EXCEPT !.state = "Closed"])
           /\ SessionOK([s EXCEPT !.child = FALSE])
           /\ \A x \in {"up", "exited", "stopped"} : SessionOK([s EXCEPT !.shell = x])
  <1>1. ASSUME NEW x \in {"up", "exited", "stopped"} PROVE SessionOK([s EXCEPT !.shell = x])
    <2>1. [s EXCEPT !.shell = x] \in Session
      BY DEF Session
    <2> QED
      BY <2>1 DEF SessionOK, Session, Continuous
  <1>2. SessionOK([s EXCEPT !.child = FALSE])
    <2>1. [s EXCEPT !.child = FALSE] \in Session
      BY DEF Session
    <2> QED
      BY <2>1 DEF SessionOK, Session, Continuous
  <1>3. SessionOK([s EXCEPT !.state = "Closed"])
    <2>1. [s EXCEPT !.state = "Closed"] \in Session
      BY DEF Session
    <2> QED
      BY <2>1 DEF SessionOK, Session, Continuous
  <1> QED
    BY <1>1, <1>2, <1>3

LEMMA MaxZero ==
    ASSUME NEW x \in Int
    PROVE  Max({0, x}) = IF x > 0 THEN x ELSE 0
  BY DEF Max

LEMMA ReplayReaches ==
    ASSUME NEW m \in Nat, NEW n \in Nat, n <= m, n >= Recent \/ n = m
    PROVE  LET b == IF n <= Recent THEN n ELSE Recent
               l == IF m > Recent THEN m - Recent ELSE 0
           IN  b <= m /\ (b >= Recent \/ b = m) /\ l + b = m
  BY Sizes

(* A replay: the history reaches as far back as the viewer is told.        *)
LEMMA ReopenedOK ==
    ASSUME NEW s \in Session, SessionOK(s), NEW c \in Conn
    PROVE  SessionOK([Reopened(s) EXCEPT !.viewer = c, !.last = Max({0, s.made - Recent})])
  <1> DEFINE h == s.buffer \o s.chan
             b == LastOf(h, Recent)
             l == Max({0, s.made - Recent})
             r == [Reopened(s) EXCEPT !.viewer = c, !.last = l]
  <1>0. /\ s.buffer \in Seq(Nat) /\ s.chan \in Seq(Nat) /\ s.made \in Nat
        /\ s.torn \in BOOLEAN /\ s.gap \in BOOLEAN /\ ~s.gap
    BY DEF SessionOK, Session
  <1>1. h \in Seq(Nat)
    BY <1>0
  <1>2. b \in Seq(Nat) /\ Len(b) = IF Len(h) <= Recent THEN Len(h) ELSE Recent
    BY <1>1, LastOfOK, Sizes
  <1>3. l = IF s.made > Recent THEN s.made - Recent ELSE 0
    <2> DEFINE x == s.made - Recent
    <2>1. x \in Int
      BY <1>0, Sizes
    <2>2. Max({0, x}) = IF x > 0 THEN x ELSE 0
      <3> HIDE DEF x
      <3> QED
        BY <2>1, MaxZero
    <2>3. x > 0 <=> s.made > Recent
      BY <1>0, Sizes
    <2> QED
      BY <2>2, <2>3
  <1>4. l \in Nat
    BY <1>0, <1>3, Sizes
  <1>5. /\ r.state = "Active" /\ r.chan = <<>> /\ r.buffer = b /\ r.pending = b
        /\ r.last = l /\ r.made = s.made /\ r.torn = s.torn /\ r.gap = s.gap
    BY DEF Reopened, Session
  <1>6. r \in Session
    <2>1. Reopened(s) \in Session
      <3>1. Reopened(s) = [s EXCEPT !.state = "Active", !.chan = <<>>, !.buffer = b,
                                    !.pending = b]
        BY DEF Reopened
      <3> HIDE DEF b
      <3>2. <<>> \in Seq(Nat)
        OBVIOUS
      <3> QED
        BY <1>2, <3>1, <3>2 DEF Session
    <2> HIDE DEF l
    <2> QED
      BY <1>4, <2>1 DEF Session
  <1> HIDE DEF b, l, r, h
  <1>7. b \o <<>> = b
    BY <1>2
  <1>8. Continuous(r)
    <2> SUFFICES ASSUME ~s.torn
                 PROVE  /\ Len(b) <= s.made
                        /\ Len(b) >= Recent \/ Len(b) = s.made
                        /\ Run(b, s.made - Len(b))
                        /\ Run(b, l) /\ l + Len(b) = s.made
      BY <1>5, <1>7 DEF Continuous
    <2>1. /\ Len(h) <= s.made /\ Run(h, s.made - Len(h))
          /\ Len(h) >= Recent \/ Len(h) = s.made
      BY DEF SessionOK, Continuous, h
    <2>2. Len(h) \in Nat
      BY <1>1
    <2>3. Run(b, s.made - Len(b))
      BY <1>0, <1>1, <2>1, RunLast, Sizes DEF b
    <2>4. /\ Len(b) <= s.made
          /\ Len(b) >= Recent \/ Len(b) = s.made
          /\ l + Len(b) = s.made
      <3> DEFINE n == Len(h)
                 m == s.made
                 x == IF n <= Recent THEN n ELSE Recent
                 y == IF m > Recent THEN m - Recent ELSE 0
      <3>1. m \in Nat /\ n \in Nat /\ n <= m /\ (n >= Recent \/ n = m)
        BY <1>0, <2>1, <2>2
      <3>2. x <= m /\ (x >= Recent \/ x = m) /\ y + x = m
        <4> HIDE DEF n, m
        <4> QED
          BY <3>1, ReplayReaches
      <3>3. Len(b) = x /\ l = y
        BY <1>2, <1>3
      <3> HIDE DEF n, x, y
      <3> QED
        BY <3>2, <3>3
    <2>5. s.made - Len(b) = l
      <3>1. Len(b) \in Nat /\ l + Len(b) = s.made
        BY <1>2, <2>4
      <3> QED
        BY <1>0, <1>4, <3>1
    <2>6. Run(b, l)
      BY <2>3, <2>5
    <2> QED
      BY <2>3, <2>4, <2>6
  <1>9. Len(b) <= Recent /\ Len(<<>>) <= ChannelSize
    BY <1>1, <1>2, Sizes
  <1> QED
    BY <1>0, <1>5, <1>6, <1>8, <1>9 DEF SessionOK, r, l

(* A chunk of output goes into the channel, or tears the stream.           *)
LEMMA OutputOK ==
    ASSUME NEW s \in Session, SessionOK(s)
    PROVE  LET n == s.made + 1
               full == Len(s.chan) = ChannelSize
           IN  SessionOK([s EXCEPT !.made = n, !.torn = @ \/ full,
                                   !.chan = IF full THEN @ ELSE Append(@, n)])
  <1> DEFINE n == s.made + 1
             full == Len(s.chan) = ChannelSize
             q == IF full THEN s.chan ELSE Append(s.chan, n)
             r == [s EXCEPT !.made = n, !.torn = @ \/ full, !.chan = q]
  <1>0. /\ s.buffer \in Seq(Nat) /\ s.chan \in Seq(Nat) /\ s.made \in Nat
        /\ s.pending \in Seq(Nat) /\ s.last \in Nat
        /\ s.torn \in BOOLEAN /\ s.gap \in BOOLEAN /\ ~s.gap
        /\ Len(s.chan) <= ChannelSize
    BY DEF SessionOK, Session
  <1>1. n \in Nat
    BY <1>0
  <1>2. q \in Seq(Nat) /\ Len(q) <= ChannelSize
    <2>1. CASE full
      BY <1>0, <2>1
    <2>2. CASE ~full
      <3>1. Len(s.chan) \in Nat /\ Len(Append(s.chan, n)) = Len(s.chan) + 1
        BY <1>0, <1>1
      <3> QED
        BY <1>0, <1>1, <2>2, <3>1, Sizes
    <2> QED
      BY <2>1, <2>2
  <1>3. r \in Session
    <2> HIDE DEF q, n
    <2>1. [s EXCEPT !.made = n, !.chan = q] \in Session
      BY <1>1, <1>2 DEF Session
    <2>2. (s.torn \/ full) \in BOOLEAN
      OBVIOUS
    <2> HIDE DEF full
    <2> QED
      BY <1>1, <1>2, <2>2 DEF Session
  <1>4. /\ r.made = n /\ r.chan = q /\ r.buffer = s.buffer /\ r.pending = s.pending
        /\ r.last = s.last /\ r.state = s.state /\ r.gap = s.gap
        /\ r.torn = (s.torn \/ full)
    BY DEF Session
  <1>5. Continuous(r)
    <2> SUFFICES ASSUME ~s.torn, ~full
                 PROVE  Continuous(r)
      BY <1>0, <1>4 DEF Continuous
    <2> DEFINE h == s.buffer \o s.chan
               p == s.pending \o s.chan
    <2>0. q = Append(s.chan, n)
      OBVIOUS
    <2>1. /\ s.buffer \o q = Append(h, n) /\ h \in Seq(Nat)
          /\ Len(Append(h, n)) = Len(h) + 1
      BY <1>0, <1>1, <2>0, ConcatAppend
    <2>2. /\ s.pending \o q = Append(p, n) /\ p \in Seq(Nat)
          /\ Len(Append(p, n)) = Len(p) + 1
      BY <1>0, <1>1, <2>0, ConcatAppend
    <2>3. /\ Len(h) <= s.made
          /\ Len(h) >= Recent \/ Len(h) = s.made
          /\ Run(h, s.made - Len(h))
          /\ s.state = "Active" => Run(p, s.last) /\ s.last + Len(p) = s.made
      BY DEF SessionOK, Continuous
    <2> HIDE DEF h, p
    <2>4. Len(h) \in Nat /\ Len(p) \in Nat
      BY <2>1, <2>2
    <2>5. /\ s.made - Len(h) \in Int
          /\ n = (s.made - Len(h)) + Len(h) + 1
          /\ n - (Len(h) + 1) = s.made - Len(h)
          /\ Len(h) + 1 <= n
          /\ Len(h) + 1 >= Recent \/ Len(h) + 1 = n
      BY <1>0, <2>3, <2>4, Sizes
    <2>6. Run(Append(h, n), s.made - Len(h))
      BY <1>1, <2>1, <2>3, <2>5, RunAppend
    <2>7. s.state = "Active" => Run(Append(p, n), s.last) /\ s.last + (Len(p) + 1) = n
      <3> SUFFICES ASSUME s.state = "Active"
                   PROVE  Run(Append(p, n), s.last) /\ s.last + (Len(p) + 1) = n
        OBVIOUS
      <3>1. s.last \in Int /\ n = s.last + Len(p) + 1 /\ s.last + (Len(p) + 1) = n
        BY <1>0, <2>3, <2>4
      <3> QED
        BY <1>1, <2>2, <2>3, <3>1, RunAppend
    <2> HIDE DEF r, q, n
    <2> QED
      BY <1>4, <2>1, <2>2, <2>5, <2>6, <2>7 DEF Continuous
  <1>6. Len(s.buffer) <= Recent /\ Len(s.pending) <= Recent
    BY DEF SessionOK
  <1>7. SessionOK(r)
    <2> HIDE DEF r, q
    <2> QED
      BY <1>0, <1>2, <1>3, <1>4, <1>5, <1>6 DEF SessionOK
  <1> QED
    BY <1>7

(* What is sent to the viewer continues what it has.                       *)
LEMMA ShownOK ==
    ASSUME NEW s \in Session, SessionOK(s), s.state = "Active", NEW c, NEW p
    PROVE  LET v == Shown(c, p, s, s.pending \o s.chan)
           IN  /\ v \in Session
               /\ ~v.gap
               /\ v.state = s.state /\ v.made = s.made
               /\ v.shell = s.shell /\ v.told = s.told /\ v.child = s.child
               /\ ~v.torn => ~s.torn /\ v.last = s.made
  <1> DEFINE q == s.pending \o s.chan
             v == Shown(c, p, s, q)
             away == s.viewer # c \/ service[thread[c].svc].table[p[1]] # p[2]
             bad == \E k \in 1..Len(q) : q[k] # s.last + k
  <1>0. /\ s.pending \in Seq(Nat) /\ s.chan \in Seq(Nat)
        /\ s.made \in Nat /\ s.last \in Nat
        /\ s.torn \in BOOLEAN /\ s.gap \in BOOLEAN /\ ~s.gap
    BY DEF SessionOK, Session
  <1>1. q \in Seq(Nat)
    BY <1>0
  <1>2. ~s.torn => Run(q, s.last) /\ s.last + Len(q) = s.made
    BY DEF SessionOK, Continuous
  <1>3. ~s.torn => ~bad
    BY <1>2 DEF Run
  <1> HIDE DEF q
  <1>4. CASE q = <<>>
    <2>1. v = s
      BY <1>4 DEF Shown
    <2>2. ~s.torn => s.last = s.made
      BY <1>0, <1>2, <1>4
    <2> QED
      BY <1>0, <2>1, <2>2 DEF q
  <1>5. CASE q # <<>> /\ away
    <2>1. v = [s EXCEPT !.torn = TRUE]
      BY <1>5 DEF Shown
    <2>2. v \in Session /\ v.torn
      BY <2>1 DEF Session
    <2>3. /\ v.state = s.state /\ v.made = s.made /\ v.gap = s.gap
          /\ v.shell = s.shell /\ v.told = s.told /\ v.child = s.child
      BY <2>1 DEF Session
    <2> QED
      BY <1>0, <2>2, <2>3 DEF q
  <1>6. CASE q # <<>> /\ ~away
    <2> DEFINE g == s.gap \/ (~s.torn /\ bad)
               e == q[Len(q)]
    <2>1. v = [s EXCEPT !.last = e, !.gap = g]
      BY <1>6 DEF Shown
    <2>2. g = FALSE
      BY <1>0, <1>3
    <2>3. Len(q) \in 1..Len(q) /\ e \in Nat
      BY <1>1, <1>6
    <2>4. ~s.torn => e = s.made
      BY <1>0, <1>2, <2>3 DEF Run
    <2> HIDE DEF g, e
    <2>5. v = [s EXCEPT !.last = e, !.gap = FALSE]
      BY <2>1, <2>2
    <2>6. v \in Session
      BY <2>3, <2>5 DEF Session
    <2>7. /\ v.state = s.state /\ v.made = s.made /\ v.gap = FALSE
          /\ v.shell = s.shell /\ v.told = s.told /\ v.child = s.child
          /\ v.torn = s.torn /\ v.last = e
      BY <2>5 DEF Session
    <2> QED
      BY <2>4, <2>6, <2>7 DEF q
  <1> QED
    BY <1>4, <1>5, <1>6

(* A poll drains the channel into the history.                             *)
Polled(c, p, s, ended) ==
    [(IF s.state = "Active" THEN Shown(c, p, s, s.pending \o s.chan) ELSE s)
        EXCEPT !.told = @ \/ ended, !.chan = <<>>,
               !.buffer = LastOf(s.buffer \o s.chan, Recent),
               !.pending = IF s.state = "Active" THEN <<>> ELSE @]

LEMMA PolledOK ==
    ASSUME NEW s \in Session, SessionOK(s), NEW c, NEW p, NEW ended \in BOOLEAN
    PROVE  /\ SessionOK(Polled(c, p, s, ended))
           /\ Polled(c, p, s, ended).told = (s.told \/ ended)
           /\ Polled(c, p, s, ended).shell = s.shell
           /\ Polled(c, p, s, ended).child = s.child
  <1> DEFINE active == s.state = "Active"
             h == s.buffer \o s.chan
             b == LastOf(h, Recent)
             v == IF active THEN Shown(c, p, s, s.pending \o s.chan) ELSE s
             w == IF active THEN <<>> ELSE v.pending
             r == [v EXCEPT !.told = @ \/ ended, !.chan = <<>>, !.buffer = b, !.pending = w]
  <1>0. /\ s.buffer \in Seq(Nat) /\ s.chan \in Seq(Nat) /\ s.pending \in Seq(Nat)
        /\ s.made \in Nat /\ Len(s.pending) <= Recent
        /\ s.torn \in BOOLEAN /\ s.told \in BOOLEAN /\ ~s.gap
    BY DEF SessionOK, Session
  <1>1. /\ v \in Session
        /\ ~v.gap
        /\ v.state = s.state /\ v.made = s.made
        /\ v.shell = s.shell /\ v.told = s.told /\ v.child = s.child
        /\ ~v.torn => ~s.torn /\ (active => v.last = s.made)
        /\ ~active => v = s
    <2>1. CASE active
      BY <2>1, ShownOK
    <2>2. CASE ~active
      BY <1>0, <2>2
    <2> QED
      BY <2>1, <2>2
  <1> HIDE DEF v
  <1>2. w \in Seq(Nat) /\ Len(w) <= Recent
    BY <1>0, <1>1, Sizes
  <1>3. h \in Seq(Nat)
    BY <1>0
  <1>4. b \in Seq(Nat) /\ Len(b) = IF Len(h) <= Recent THEN Len(h) ELSE Recent
    BY <1>3, LastOfOK, Sizes
  <1>5. (v.told \/ ended) \in BOOLEAN
    OBVIOUS
  <1>6. r \in Session
    <2>1. <<>> \in Seq(Nat)
      OBVIOUS
    <2> HIDE DEF b, w
    <2> QED
      BY <1>1, <1>2, <1>4, <1>5, <2>1 DEF Session
  <1>7. /\ r.told = (v.told \/ ended) /\ r.chan = <<>> /\ r.buffer = b /\ r.pending = w
        /\ r.made = v.made /\ r.state = v.state /\ r.torn = v.torn /\ r.gap = v.gap
        /\ r.last = v.last /\ r.shell = v.shell /\ r.child = v.child
    BY <1>1 DEF Session
  <1>8. active => w = <<>>
    OBVIOUS
  <1> HIDE DEF b, w, r, h
  <1>9. Continuous(r)
    <2> SUFFICES ASSUME ~v.torn PROVE Continuous(r)
      BY <1>7 DEF Continuous
    <2>1. /\ Len(h) <= s.made /\ Run(h, s.made - Len(h))
          /\ Len(h) >= Recent \/ Len(h) = s.made
      BY <1>1 DEF SessionOK, Continuous, h
    <2>2. Len(h) \in Nat
      BY <1>3
    <2>3. Run(b, s.made - Len(b))
      BY <1>0, <1>3, <2>1, RunLast, Sizes DEF b
    <2>4. Len(b) <= s.made /\ (Len(b) >= Recent \/ Len(b) = s.made)
      <3> DEFINE n == Len(h)
                 m == s.made
                 x == IF n <= Recent THEN n ELSE Recent
      <3>1. m \in Nat /\ n \in Nat /\ n <= m /\ (n >= Recent \/ n = m)
        BY <1>0, <2>1, <2>2
      <3>2. x <= m /\ (x >= Recent \/ x = m)
        <4> HIDE DEF n, m
        <4> QED
          BY <3>1, Sizes
      <3>3. Len(b) = x
        BY <1>4
      <3> HIDE DEF n, x
      <3> QED
        BY <3>2, <3>3
    <2>5. b \o <<>> = b
      BY <1>4
    <2>6. s.state = "Active" => /\ v.last = s.made /\ w \o <<>> = <<>>
                                /\ Run(<<>>, v.last) /\ v.last + Len(<<>>) = s.made
      BY <1>0, <1>1, <1>8 DEF Run
    <2> QED
      BY <1>1, <1>7, <2>3, <2>4, <2>5, <2>6 DEF Continuous
  <1>10. Len(b) <= Recent /\ Len(<<>>) <= ChannelSize
    BY <1>3, <1>4, Sizes
  <1>11. SessionOK(r)
    BY <1>1, <1>2, <1>6, <1>7, <1>9, <1>10 DEF SessionOK
  <1>12. /\ SessionOK(r)
         /\ r.told = (s.told \/ ended) /\ r.shell = s.shell /\ r.child = s.child
    BY <1>1, <1>7, <1>11
  <1> QED
    BY <1>12, Zenon DEF Polled, r, w, b, v, h

-----------------------------------------------------------------------------
(* The state as a whole.                                                   *)

(* What the types say of the components.                                   *)
LEMMA TypeFacts ==
    ASSUME TerminalIInv
    PROVE  /\ Len(service) \in Nat /\ Len(session) \in Nat
           /\ Tid \subseteq Nat
           /\ registry \in Nat /\ registry <= Len(service)
           /\ service \in [Object -> Service]
           /\ session \in [Sid -> Session]
           /\ \A o \in Object, t \in Tid :
                 service[o].table[t] \in Nat /\ service[o].table[t] <= Len(session)
           /\ \A i \in Sid : SessionOK(session[i])
           /\ thread \in [Conn -> Thread]
           /\ \A c \in Conn : /\ thread[c] \in Thread
                              /\ thread[c].svc <= Len(service)
                              /\ \A p \in thread[c].list : p[2] \in Sid
                              /\ \A t \in Tid : thread[c].clone[t] <= Len(session)
  <1> USE DEF TerminalIInv
  <1>1. /\ registry \in 0..Len(service) /\ service \in Seq(Service) /\ session \in Seq(Session)
        /\ \A o \in Object, t \in Tid : service[o].table[t] <= Len(session)
        /\ \A i \in Sid : /\ Len(session[i].chan) <= ChannelSize
                          /\ Len(session[i].buffer) <= Recent
                          /\ Len(session[i].pending) <= Recent
        /\ thread \in [Conn -> Thread]
        /\ \A c \in Conn : /\ thread[c].svc <= Len(service)
                           /\ \A p \in thread[c].list : p[2] \in Sid
                           /\ \A t \in Tid : thread[c].clone[t] <= Len(session)
    BY DEF TerminalTypeOK
  <1>2. /\ Len(service) \in Nat /\ Len(session) \in Nat
        /\ service \in [Object -> Service] /\ session \in [Sid -> Session]
    BY <1>1 DEF Object, Sid
  <1>3. registry \in Nat /\ registry <= Len(service)
    BY <1>1, <1>2
  <1>4. \A o \in Object, t \in Tid : service[o].table[t] \in Nat
    BY <1>2 DEF Service
  <1>5. \A i \in Sid : SessionOK(session[i])
    BY <1>1, <1>2 DEF SessionOK
  <1>6. \A c \in Conn : thread[c] \in Thread
    BY <1>1
  <1> QED
    BY <1>1, <1>2, <1>3, <1>4, <1>5, <1>6, TerminalAssumption

LEMMA NoThreadOK == NoThread \in Thread
  <1>1. Empty \in [Tid -> Nat]
    BY DEF Empty
  <1> QED
    BY <1>1 DEF NoThread, Thread, Labels

(* A function on 1..n is a sequence of n elements.                         *)
LEMMA SeqOfFunction ==
    ASSUME NEW S, NEW n \in Nat, NEW r \in [1..n -> S]
    PROVE  r \in Seq(S) /\ Len(r) = n
  OBVIOUS

(* The parts of the invariant that concern one thread.                     *)
ThreadFits(th) ==
    /\ th \in Thread
    /\ th.svc <= Len(service)
    /\ \A p \in th.list : p[2] \in Sid
    /\ \A t \in Tid : th.clone[t] <= Len(session)
    /\ IF th.pc \in {"each", "clone", "cleanup"} THEN th.svc # 0 ELSE th.closed = {}
    /\ th.pc = "remove" /\ th.fresh /\ registry # 0 => ~service[registry].persistent

(* A step of one thread that changes nothing else.                         *)
LEMMA ThreadOnly ==
    ASSUME TerminalIInv, NEW c \in Conn, NEW th, ThreadFits(th), conn[c] # "new",
           thread' = [thread EXCEPT ![c] = th],
           UNCHANGED <<registry, service, session, conn, janitor, misled>>,
           \A o \in Object, t \in Tid : service[o].table[t] # 0 /\ Cleans(c, o, t, service[o].table[t])
              => /\ th.svc = o /\ t \in th.closed
                 /\ th.pc = "cleanup" => th.clone[t] = service[o].table[t]
    PROVE  TerminalIInv'
  <1> USE DEF TerminalIInv
  <1>0. thread \in [Conn -> Thread] /\ thread' \in [Conn -> Thread] /\ thread'[c] = th
        /\ \A d \in Conn : d # c => thread'[d] = thread[d]
    BY DEF TerminalTypeOK, ThreadFits
  <1>1. TerminalTypeOK'
    BY <1>0 DEF TerminalTypeOK, ThreadFits, Object, Sid
  <1>2. Unique' /\ \A i \in Sid' : Continuous(session'[i]) /\ ~session'[i].gap
    BY DEF Unique, Object, Sid
  <1>3. ThreadsOK'
    BY <1>0 DEF ThreadsOK, ThreadFits
  <1>4. EndsTracked'
    <2> SUFFICES ASSUME NEW o \in Object, NEW t \in Tid, service[o].table[t] # 0,
                        service[o].table[t] \notin misled,
                        session[service[o].table[t]].shell # "stopped"
                 PROVE  /\ session[service[o].table[t]].child
                        /\ session[service[o].table[t]].told =>
                              \E d \in Conn : Cleans(d, o, t, service[o].table[t])'
      BY DEF EndsTracked, Object
    <2>1. session[service[o].table[t]].child
      BY DEF EndsTracked
    <2>2. ASSUME session[service[o].table[t]].told
          PROVE  \E d \in Conn : Cleans(d, o, t, service[o].table[t])'
      <3>1. PICK d \in Conn : Cleans(d, o, t, service[o].table[t])
        BY <2>2 DEF EndsTracked
      <3>2. Cleans(d, o, t, service[o].table[t])'
        <4>1. CASE d = c
          BY <1>0, <3>1, <4>1 DEF Cleans
        <4>2. CASE d # c
          BY <1>0, <3>1, <4>2 DEF Cleans
        <4> QED
          BY <4>1, <4>2
      <3> QED
        BY <3>2
    <2> QED
      BY <2>1, <2>2
  <1>5. RemovalsJustified'
    BY <1>0 DEF RemovalsJustified, ThreadFits
  <1> QED
    BY <1>1, <1>2, <1>3, <1>4, <1>5

(* A connection whose thread runs is not new.                              *)
LEMMA Running ==
    ASSUME TerminalIInv, NEW c \in Conn, thread[c].pc # "none"
    PROVE  conn[c] # "new"
  BY DEF TerminalIInv, ThreadsOK, NoThread

LEMMA OuterKeeps ==
    ASSUME TerminalIInv, NEW c \in Conn, Outer(c)
    PROVE  TerminalIInv'
  <1> DEFINE x == IF conn[c] = "open" THEN "top" ELSE "none"
             th == [thread[c] EXCEPT !.pc = x]
  <1>1. thread[c] \in Thread /\ thread \in [Conn -> Thread]
    BY TypeFacts
  <1>2. thread' = [thread EXCEPT ![c] = th]
    BY <1>1 DEF Outer, Goto
  <1>3. x \in {"top", "none"} /\ thread[c].pc = "outer" /\ thread[c].closed = {}
    BY DEF Outer, TerminalIInv, ThreadsOK
  <1> HIDE DEF x
  <1>4. /\ th \in Thread /\ th.pc = x /\ th.svc = thread[c].svc /\ th.list = thread[c].list
        /\ th.closed = {} /\ th.clone = thread[c].clone
    BY <1>1, <1>3 DEF Thread, Labels
  <1> HIDE DEF th
  <1>5. ThreadFits(th)
    BY <1>3, <1>4, TypeFacts DEF ThreadFits
  <1>6. conn[c] # "new"
    BY <1>3, Running
  <1>7. UNCHANGED <<registry, service, session, conn, janitor, misled>>
    BY DEF Outer
  <1>8. \A o, t, i : ~Cleans(c, o, t, i)
    BY <1>3 DEF Cleans
  <1> QED
    BY <1>2, <1>5, <1>6, <1>7, <1>8, ThreadOnly

LEMMA TopKeeps ==
    ASSUME TerminalIInv, NEW c \in Conn, Top(c)
    PROVE  TerminalIInv'
  <1>1. thread[c] \in Thread /\ thread \in [Conn -> Thread]
    BY TypeFacts
  <1>2. thread[c].pc = "top" /\ thread[c].closed = {}
    BY DEF Top, TerminalIInv, ThreadsOK
  <1>3. conn[c] # "new"
    BY <1>2, Running
  <1>4. UNCHANGED <<registry, service, session, conn, janitor, misled>>
    BY DEF Top
  <1>5. \A o, t, i : ~Cleans(c, o, t, i)
    BY <1>2 DEF Cleans
  <1>6. CASE conn[c] # "open"
    <2> DEFINE x == IF registry # 0 /\ ~service[registry].persistent THEN "remove" ELSE "none"
               th == [thread[c] EXCEPT !.pc = x]
    <2>1. thread' = [thread EXCEPT ![c] = th]
      BY <1>1, <1>6 DEF Top, Goto
    <2>2. x \in {"remove", "none"} /\ (x = "remove" => ~service[registry].persistent)
      OBVIOUS
    <2> HIDE DEF x
    <2>3. /\ th \in Thread /\ th.pc = x /\ th.svc = thread[c].svc /\ th.list = thread[c].list
          /\ th.closed = {} /\ th.clone = thread[c].clone
      BY <1>1, <1>2, <2>2 DEF Thread, Labels
    <2> HIDE DEF th
    <2>4. ThreadFits(th)
      BY <2>2, <2>3, TypeFacts DEF ThreadFits
    <2> QED
      BY <1>3, <1>4, <1>5, <2>1, <2>4, ThreadOnly
  <1>7. CASE conn[c] = "open"
    <2> DEFINE table == service[registry].table
               list == {<<t, table[t]>> : t \in {u \in Tid : table[u] # 0}}
               th == [NoThread EXCEPT !.pc = "each", !.svc = registry, !.list = list,
                           !.persistent = service[registry].persistent]
    <2>1. registry # 0 /\ thread' = [thread EXCEPT ![c] = th]
      BY <1>7 DEF Top
    <2>2. registry \in Object /\ registry \in Nat
      BY <2>1, TypeFacts DEF Object
    <2>3. \A t \in Tid : table[t] \in Nat /\ table[t] <= Len(session)
      BY <2>2, TypeFacts
    <2>4. Len(session) \in Nat
      BY TypeFacts
    <2>5. list \in SUBSET (Tid \X Nat) /\ \A p \in list : p[2] \in Sid
      BY <2>3, <2>4 DEF Sid
    <2>6. service[registry].persistent \in BOOLEAN
      BY <2>2, TypeFacts DEF Service
    <2> HIDE DEF list
    <2>7. th \in Thread
      BY <2>2, <2>5, <2>6, NoThreadOK DEF Thread, Labels
    <2>8. /\ th.pc = "each" /\ th.svc = registry /\ th.list = list
          /\ th.closed = {} /\ th.clone = Empty
      BY DEF NoThread
    <2> HIDE DEF th
    <2>9. \A t \in Tid : th.clone[t] <= Len(session)
      BY <2>4, <2>8 DEF Empty
    <2>10. ThreadFits(th)
      BY <2>1, <2>5, <2>7, <2>8, <2>9, TypeFacts DEF ThreadFits
    <2> QED
      BY <1>3, <1>4, <1>5, <2>1, <2>10, ThreadOnly
  <1> QED
    BY <1>6, <1>7

(* The thread after it is done with one session.                           *)
After(c, p, id) ==
    IF thread[c].list \ {p} = {} /\ thread[c].closed \cup id = {} THEN [NoThread EXCEPT !.pc = "top"]
    ELSE [thread[c] EXCEPT !.list = thread[c].list \ {p}, !.closed = thread[c].closed \cup id,
                           !.pc = IF thread[c].list \ {p} = {} THEN "clone" ELSE "each"]

LEMMA AfterOK ==
    ASSUME TerminalIInv, NEW c \in Conn, NEW p, NEW id \in SUBSET Tid, thread[c].pc = "each"
    PROVE  /\ ThreadFits(After(c, p, id))
           /\ After(c, p, id).closed = thread[c].closed \cup id
           /\ After(c, p, id).closed # {} => After(c, p, id).svc = thread[c].svc
           /\ After(c, p, id).pc # "cleanup"
  <1> DEFINE list == thread[c].list \ {p}
             closed == thread[c].closed \cup id
             x == IF list = {} THEN "clone" ELSE "each"
             th == After(c, p, id)
  <1>1. thread[c] \in Thread /\ thread \in [Conn -> Thread]
    BY TypeFacts
  <1>3. thread[c].svc # 0
    BY DEF TerminalIInv, ThreadsOK
  <1>4. list \in SUBSET (Tid \X Nat) /\ closed \in SUBSET Tid
    BY <1>1 DEF Thread
  <1>5. CASE list = {} /\ closed = {}
    <2>1. th = [NoThread EXCEPT !.pc = "top"]
      BY <1>5 DEF After
    <2>2. /\ th \in Thread /\ th.pc = "top" /\ th.svc = 0 /\ th.list = {}
          /\ th.closed = {} /\ th.clone = Empty
      BY <2>1, NoThreadOK DEF NoThread, Thread, Labels
    <2> HIDE DEF th
    <2>3. Len(session) \in Nat /\ Len(service) \in Nat
      BY TypeFacts
    <2>4. ThreadFits(th)
      BY <2>2, <2>3 DEF ThreadFits, Empty
    <2> QED
      BY <1>5, <2>2, <2>4 DEF th
  <1>6. CASE ~(list = {} /\ closed = {})
    <2>1. th = [thread[c] EXCEPT !.list = list, !.closed = closed, !.pc = x]
      BY <1>6 DEF After
    <2>2. x \in {"clone", "each"}
      OBVIOUS
    <2> HIDE DEF x
    <2>3. /\ th \in Thread /\ th.pc = x /\ th.svc = thread[c].svc /\ th.list = list
          /\ th.closed = closed /\ th.clone = thread[c].clone
      BY <1>1, <1>4, <2>1, <2>2 DEF Thread, Labels
    <2> HIDE DEF th
    <2>4. ThreadFits(th)
      BY <1>3, <2>2, <2>3, TypeFacts DEF ThreadFits
    <2> QED
      BY <2>2, <2>3, <2>4 DEF th
  <1> QED
    BY <1>5, <1>6

LEMMA SkipKeeps ==
    ASSUME TerminalIInv, NEW c \in Conn, NEW p \in thread[c].list, Skip(c, p)
    PROVE  TerminalIInv'
  <1>1. thread[c].pc = "each" /\ Looked(c, p, {})
        /\ UNCHANGED <<registry, service, session, conn, janitor, misled>>
    BY DEF Skip
  <1>2. conn[c] # "new"
    BY <1>1, Running
  <1> DEFINE th == After(c, p, {})
  <1>3. thread' = [thread EXCEPT ![c] = th]
    <2>1. thread \in [Conn -> Thread]
      BY TypeFacts
    <2> QED
      BY <1>1, <2>1 DEF Looked, After
  <1>4. /\ ThreadFits(th)
        /\ th.closed = thread[c].closed \cup {}
        /\ th.closed # {} => th.svc = thread[c].svc
        /\ th.pc # "cleanup"
    <2>1. {} \in SUBSET Tid
      OBVIOUS
    <2>2. \A id \in SUBSET Tid : /\ ThreadFits(After(c, p, id))
                                 /\ After(c, p, id).closed = thread[c].closed \cup id
                                 /\ After(c, p, id).closed # {} => After(c, p, id).svc = thread[c].svc
                                 /\ After(c, p, id).pc # "cleanup"
      BY <1>1, AfterOK
    <2> QED
      BY <2>1, <2>2
  <1> HIDE DEF th
  <1>5. \A o, t, i : Cleans(c, o, t, i) => th.svc = o /\ t \in th.closed
    BY <1>4 DEF Cleans
  <1> QED
    BY <1>1, <1>2, <1>3, <1>4, <1>5, ThreadOnly

LEMMA CloneKeeps ==
    ASSUME TerminalIInv, NEW c \in Conn, Clone(c)
    PROVE  TerminalIInv'
  <1> DEFINE table == service[thread[c].svc].table
             th == [thread[c] EXCEPT !.pc = "cleanup", !.clone = table]
  <1>1. thread[c] \in Thread /\ thread \in [Conn -> Thread] /\ thread[c].pc = "clone"
        /\ UNCHANGED <<registry, service, session, conn, janitor, misled>>
    BY TypeFacts DEF Clone
  <1>2. thread' = [thread EXCEPT ![c] = th]
    BY <1>1 DEF Clone
  <1>3. thread[c].svc # 0
    BY <1>1 DEF TerminalIInv, ThreadsOK
  <1>4. thread[c].svc \in Object
    BY <1>1, <1>3, TypeFacts DEF Object, Thread
  <1>5. table \in [Tid -> Nat] /\ \A t \in Tid : table[t] <= Len(session)
    BY <1>4, TypeFacts DEF Service
  <1>6. conn[c] # "new"
    BY <1>1, Running
  <1>7. /\ th \in Thread /\ th.pc = "cleanup" /\ th.svc = thread[c].svc /\ th.list = thread[c].list
        /\ th.closed = thread[c].closed /\ th.clone = table
    <2> HIDE DEF table
    <2> QED
      BY <1>1, <1>5 DEF Thread, Labels
  <1> HIDE DEF th
  <1>8. ThreadFits(th)
    BY <1>3, <1>5, <1>7, TypeFacts DEF ThreadFits
  <1>9. \A o \in Object, t \in Tid : service[o].table[t] # 0 /\ Cleans(c, o, t, service[o].table[t])
           => /\ th.svc = o /\ t \in th.closed
              /\ th.pc = "cleanup" => th.clone[t] = service[o].table[t]
    <2> HIDE DEF table
    <2>1. \A o, t, i : Cleans(c, o, t, i) => th.svc = o /\ t \in th.closed
      BY <1>7 DEF Cleans
    <2>2. \A o : th.svc = o => th.clone = service[o].table
      BY <1>7 DEF table
    <2> QED
      BY <2>1, <2>2
  <1> QED
    BY <1>1, <1>2, <1>6, <1>8, <1>9, ThreadOnly

LEMMA Fits ==
    ASSUME TerminalIInv
    PROVE  \A c \in Conn : ThreadFits(thread[c])
  <1> SUFFICES ASSUME NEW c \in Conn PROVE ThreadFits(thread[c])
    OBVIOUS
  <1>1. IF thread[c].pc \in {"each", "clone", "cleanup"} THEN thread[c].svc # 0
        ELSE thread[c].closed = {}
    BY DEF TerminalIInv, ThreadsOK
  <1>2. thread[c].pc = "remove" /\ thread[c].fresh /\ registry # 0 => ~service[registry].persistent
    BY DEF TerminalIInv, RemovalsJustified
  <1> QED
    BY <1>1, <1>2, TypeFacts DEF ThreadFits

(* The parts of the invariant after a step.                                *)
LEMMA Assemble ==
    ASSUME registry' \in Nat, registry' <= Len(service'),
           service' \in Seq(Service), session' \in Seq(Session),
           \A o \in 1..Len(service'), t \in Tid : service'[o].table[t] <= Len(session'),
           \A i \in 1..Len(session') : SessionOK(session'[i]),
           conn' \in [Conn -> {"new", "open", "closed"}],
           thread' \in [Conn -> Thread],
           \A c \in Conn : ThreadFits(thread[c])',
           \A c \in Conn : conn'[c] = "new" => thread'[c] = NoThread,
           janitor' \in [pc : {"look", "remove"}, fresh : BOOLEAN],
           janitor'.pc = "remove" /\ janitor'.fresh /\ registry' # 0
              => (service'[registry'].persistent => service'[registry'].table = Empty),
           misled' \subseteq 1..Len(session'),
           Unique', EndsTracked'
    PROVE  TerminalIInv'
  <1>1. Len(service') \in Nat
    OBVIOUS
  <1>2. TerminalTypeOK'
    <2>1. registry' \in 0..Len(service')
      BY <1>1
    <2>2. \A i \in 1..Len(session') : /\ Len(session'[i].chan) <= ChannelSize
                                      /\ Len(session'[i].buffer) <= Recent
                                      /\ Len(session'[i].pending) <= Recent
      BY DEF SessionOK
    <2>3. \A c \in Conn : /\ thread'[c].svc <= Len(service')
                          /\ \A p \in thread'[c].list : p[2] \in 1..Len(session')
                          /\ \A t \in Tid : thread'[c].clone[t] <= Len(session')
      BY DEF ThreadFits, Sid
    <2> QED
      BY <2>1, <2>2, <2>3 DEF TerminalTypeOK, Object, Sid
  <1>3. \A i \in Sid' : Continuous(session'[i]) /\ ~session'[i].gap
    BY DEF SessionOK, Sid
  <1>4. ThreadsOK'
    BY DEF ThreadsOK, ThreadFits
  <1>5. RemovalsJustified'
    BY DEF RemovalsJustified, ThreadFits
  <1> QED
    BY <1>2, <1>3, <1>4, <1>5 DEF TerminalIInv

(* The tables stay, and so do the threads that clean up.                   *)
LEMMA EndsStay ==
    ASSUME TerminalIInv, Len(service') = Len(service), misled' = misled,
           \A o \in Object : service'[o].table = service[o].table,
           \A i \in Sid : session'[i].shell # "stopped"
              => /\ session[i].shell # "stopped"
                 /\ session'[i].child = session[i].child /\ session'[i].told = session[i].told,
           \A c \in Conn : \A o, t, i : Cleans(c, o, t, i) => Cleans(c, o, t, i)'
    PROVE  EndsTracked'
  <1> SUFFICES ASSUME NEW o \in Object, NEW t \in Tid, NEW i, i = service[o].table[t], i # 0,
                      i \notin misled, session'[i].shell # "stopped"
               PROVE  /\ session'[i].child
                      /\ session'[i].told => \E c \in Conn : Cleans(c, o, t, i)'
    BY DEF EndsTracked, Object
  <1>1. i \in Sid
    BY TypeFacts DEF Sid
  <1>2. /\ session[i].shell # "stopped"
        /\ session'[i].child = session[i].child /\ session'[i].told = session[i].told
    BY <1>1
  <1>3. /\ session[i].child
        /\ session[i].told => \E c \in Conn : Cleans(c, o, t, i)
    BY <1>2 DEF EndsTracked, TerminalIInv
  <1> QED
    BY <1>2, <1>3

LEMMA UniqueStays ==
    ASSUME TerminalIInv, Len(service') = Len(service),
           \A o \in Object : service'[o].table = service[o].table
    PROVE  Unique'
  BY DEF Unique, Object, TerminalIInv

(* A step of the shells or of a removal: the sessions change, but none is  *)
(* renamed; the registry stays or is emptied.                              *)
LEMMA SessionsOnly ==
    ASSUME TerminalIInv, registry' \in {registry, 0},
           UNCHANGED <<service, conn, misled>>,
           NEW T \in SUBSET Conn,
           \A c \in T : thread[c].closed = {},
           thread' = [c \in Conn |-> IF c \in T THEN NoThread ELSE thread[c]],
           janitor' = janitor \/ janitor' = [pc |-> "look", fresh |-> TRUE],
           session' \in [Sid -> Session],
           \A i \in Sid : SessionOK(session'[i]),
           \A i \in Sid : session'[i].shell # "stopped"
              => /\ session[i].shell # "stopped"
                 /\ session'[i].child = session[i].child /\ session'[i].told = session[i].told
    PROVE  TerminalIInv'
  <1>0. Len(session) \in Nat /\ Len(service) \in Nat /\ registry \in Nat
        /\ registry <= Len(service) /\ thread \in [Conn -> Thread]
    BY TypeFacts
  <1>1. session' \in Seq(Session) /\ Len(session') = Len(session)
    BY <1>0, SeqOfFunction DEF Sid
  <1>2. /\ service \in Seq(Service) /\ conn \in [Conn -> {"new", "open", "closed"}]
        /\ janitor \in [pc : {"look", "remove"}, fresh : BOOLEAN]
        /\ misled \subseteq Sid
        /\ \A o \in Object, t \in Tid : service[o].table[t] <= Len(session)
    BY DEF TerminalIInv, TerminalTypeOK
  <1>3. EndsTracked'
    <2>1. \A c \in Conn : \A o, t, i : Cleans(c, o, t, i) => Cleans(c, o, t, i)'
      BY DEF Cleans
    <2>2. Len(service') = Len(service) /\ \A o \in Object : service'[o].table = service[o].table
      OBVIOUS
    <2> QED
      BY <2>1, <2>2, EndsStay
  <1>4. Unique'
    BY UniqueStays
  <1>5. thread' \in [Conn -> Thread]
    BY <1>0, NoThreadOK
  <1>6. \A c \in Conn : ThreadFits(thread[c])'
    <2> SUFFICES ASSUME NEW c \in Conn PROVE ThreadFits(thread[c])'
      OBVIOUS
    <2>1. Sid' = Sid
      BY <1>1 DEF Sid
    <2>2. CASE c \in T
      <3>1. thread'[c] = NoThread
        BY <2>2
      <3>2. /\ NoThread.pc = "none" /\ NoThread.svc = 0 /\ NoThread.list = {}
            /\ NoThread.closed = {} /\ NoThread.clone = Empty
        BY DEF NoThread
      <3> QED
        BY <1>0, <1>1, <3>1, <3>2, NoThreadOK DEF ThreadFits, Empty
    <2>3. CASE c \notin T
      <3>1. thread'[c] = thread[c]
        BY <2>3
      <3> QED
        BY <1>0, <1>1, <2>1, <3>1, Fits DEF ThreadFits
    <2> QED
      BY <2>2, <2>3
  <1>7. \A c \in Conn : conn'[c] = "new" => thread'[c] = NoThread
    BY DEF TerminalIInv, ThreadsOK
  <1>8. janitor' \in [pc : {"look", "remove"}, fresh : BOOLEAN]
    <2>1. [pc |-> "look", fresh |-> TRUE] \in [pc : {"look", "remove"}, fresh : BOOLEAN]
      OBVIOUS
    <2> QED
      BY <1>2, <2>1, Zenon
  <1>9. janitor'.pc = "remove" /\ janitor'.fresh /\ registry' # 0
           => (service'[registry'].persistent => service'[registry'].table = Empty)
    BY DEF TerminalIInv, RemovalsJustified
  <1>10. registry' \in Nat /\ registry' <= Len(service')
    BY <1>0
  <1>11. \A i \in 1..Len(session') : SessionOK(session'[i])
    BY <1>1 DEF Sid
  <1>12. misled' \subseteq 1..Len(session')
    BY <1>1, <1>2 DEF Sid
  <1>13. \A o \in 1..Len(service'), t \in Tid : service'[o].table[t] <= Len(session')
    BY <1>1, <1>2 DEF Object
  <1> QED
    BY <1>1, <1>2, <1>3, <1>4, <1>5, <1>6, <1>7, <1>8, <1>9, <1>10, <1>11, <1>12, <1>13, Assemble

LEMMA ShellKeeps ==
    ASSUME TerminalIInv, NEW i \in Sid, Output(i) \/ ShellExit(i)
    PROVE  TerminalIInv'
  <1>0. session \in [Sid -> Session] /\ session[i] \in Session /\ SessionOK(session[i])
        /\ thread \in [Conn -> Thread]
    BY TypeFacts
  <1>1. PICK s : /\ session' = [session EXCEPT ![i] = s]
                 /\ SessionOK(s)
                 /\ s.child = session[i].child /\ s.told = session[i].told
                 /\ session[i].shell = "up"
    <2>1. CASE Output(i)
      <3> DEFINE n == session[i].made + 1
                 full == Len(session[i].chan) = ChannelSize
                 s == [session[i] EXCEPT !.made = n, !.torn = @ \/ full,
                                         !.chan = IF full THEN @ ELSE Append(@, n)]
      <3>1. SessionOK(s)
        BY <1>0, OutputOK
      <3>2. session' = [session EXCEPT ![i] = s]
        BY <1>0, <2>1 DEF Output
      <3>3. s.child = session[i].child /\ s.told = session[i].told
        BY <1>0 DEF Session
      <3>4. session[i].shell = "up"
        BY <2>1 DEF Output
      <3> QED
        BY <3>1, <3>2, <3>3, <3>4
    <2>2. CASE ShellExit(i)
      <3> DEFINE s == [session[i] EXCEPT !.shell = "exited"]
      <3>1. SessionOK(s)
        BY <1>0, MarkedOK
      <3>2. session' = [session EXCEPT ![i] = s]
        BY <1>0, <2>2 DEF ShellExit
      <3>3. s.child = session[i].child /\ s.told = session[i].told
        BY <1>0 DEF Session
      <3>4. session[i].shell = "up"
        BY <2>2 DEF ShellExit
      <3> QED
        BY <3>1, <3>2, <3>3, <3>4
    <2> QED
      BY <2>1, <2>2
  <1>2. /\ session' \in [Sid -> Session]
        /\ \A k \in Sid : SessionOK(session'[k])
        /\ \A k \in Sid : session'[k].shell # "stopped"
              => /\ session[k].shell # "stopped"
                 /\ session'[k].child = session[k].child /\ session'[k].told = session[k].told
    <2>1. s \in Session
      BY <1>1 DEF SessionOK
    <2>2. session'[i] = s /\ \A k \in Sid : k # i => session'[k] = session[k]
      BY <1>0, <1>1
    <2> QED
      BY <1>0, <1>1, <2>1, <2>2, TypeFacts
  <1>3. UNCHANGED <<registry, service, conn, thread, janitor, misled>>
    BY DEF Output, ShellExit
  <1> DEFINE T == {}
  <1>4. /\ T \in SUBSET Conn /\ \A c \in T : thread[c].closed = {}
        /\ thread' = [c \in Conn |-> IF c \in T THEN NoThread ELSE thread[c]]
    BY <1>0, <1>3
  <1> HIDE DEF T
  <1> QED
    BY <1>2, <1>3, <1>4, SessionsOnly

(* The sessions of the service in the registry are stopped.                *)
LEMMA RemovedSessions ==
    ASSUME TerminalIInv, RemoveService
    PROVE  /\ registry' = 0
           /\ session' \in [Sid -> Session]
           /\ \A i \in Sid : SessionOK(session'[i])
           /\ \A i \in Sid : session'[i].shell # "stopped" => session'[i] = session[i]
  <1>0. session \in [Sid -> Session] /\ \A i \in Sid : SessionOK(session[i])
    BY TypeFacts
  <1>1. CASE registry = 0
    BY <1>0, <1>1 DEF RemoveService
  <1>2. CASE registry # 0
    <2>1. /\ registry' = 0
          /\ session' = [i \in Sid |-> IF InTable(registry, i) THEN Stopped(session[i])
                                      ELSE session[i]]
      BY <1>2 DEF RemoveService
    <2>2. \A i \in Sid : SessionOK(Stopped(session[i])) /\ Stopped(session[i]).shell = "stopped"
      BY <1>0, StoppedOK DEF Stopped, NewSession
    <2>3. \A i \in Sid : session'[i] = IF InTable(registry, i) THEN Stopped(session[i])
                                       ELSE session[i]
      BY <2>1
    <2>4. \A i \in Sid : SessionOK(session'[i])
      BY <1>0, <2>2, <2>3
    <2>5. session' \in [Sid -> Session]
      BY <2>1, <2>4 DEF SessionOK
    <2> QED
      BY <2>1, <2>2, <2>3, <2>4, <2>5
  <1> QED
    BY <1>1, <1>2

LEMMA RemoveKeeps ==
    ASSUME TerminalIInv, NEW c \in Conn, Remove(c)
    PROVE  TerminalIInv'
  <1>0. thread \in [Conn -> Thread]
    BY TypeFacts
  <1>1. /\ RemoveService /\ thread[c].pc = "remove"
        /\ UNCHANGED <<service, conn, janitor, misled>>
        /\ thread' = [thread EXCEPT ![c] = NoThread]
    BY DEF Remove
  <1>2. thread[c].closed = {}
    BY <1>1 DEF TerminalIInv, ThreadsOK
  <1>3. thread' = [d \in Conn |-> IF d \in {c} THEN NoThread ELSE thread[d]]
    BY <1>0, <1>1
  <1> QED
    BY <1>1, <1>2, <1>3, RemovedSessions, SessionsOnly

LEMMA JanitorRemoveKeeps ==
    ASSUME TerminalIInv, JanitorRemove
    PROVE  TerminalIInv'
  <1>0. thread \in [Conn -> Thread]
    BY TypeFacts
  <1>1. /\ RemoveService /\ UNCHANGED <<service, conn, thread, misled>>
        /\ janitor' = [pc |-> "look", fresh |-> TRUE]
    BY DEF JanitorRemove
  <1> DEFINE T == {}
  <1>2. /\ T \in SUBSET Conn /\ \A c \in T : thread[c].closed = {}
        /\ thread' = [c \in Conn |-> IF c \in T THEN NoThread ELSE thread[c]]
    BY <1>0, <1>1
  <1> HIDE DEF T
  <1> QED
    BY <1>1, <1>2, RemovedSessions, SessionsOnly

(* A connection ends, the janitor decides, or nothing happens.             *)
LEMMA QuietKeeps ==
    ASSUME TerminalIInv, (\E c \in Conn : Disconnect(c)) \/ JanitorPick \/ UNCHANGED vars
    PROVE  TerminalIInv'
  <1> USE DEF TerminalIInv
  <1>1. CASE \E c \in Conn : Disconnect(c)
    <2>1. PICK c \in Conn : Disconnect(c)
      BY <1>1
    <2>2. /\ conn[c] = "open" /\ conn' = [conn EXCEPT ![c] = "closed"]
          /\ UNCHANGED <<registry, service, session, thread, janitor, misled>>
      BY <2>1 DEF Disconnect
    <2>3. conn \in [Conn -> {"new", "open", "closed"}]
      BY DEF TerminalTypeOK
    <2>4. /\ conn' \in [Conn -> {"new", "open", "closed"}]
          /\ \A d \in Conn : conn'[d] = "new" => conn[d] = "new"
      BY <2>2, <2>3
    <2>5. TerminalTypeOK'
      BY <2>2, <2>4 DEF TerminalTypeOK, Object, Sid
    <2>6. ThreadsOK'
      BY <2>2, <2>4 DEF ThreadsOK
    <2>7. Unique' /\ EndsTracked' /\ RemovalsJustified'
          /\ \A i \in Sid' : Continuous(session'[i]) /\ ~session'[i].gap
      BY <2>2 DEF Unique, EndsTracked, RemovalsJustified, Cleans, Object, Sid
    <2> QED
      BY <2>5, <2>6, <2>7
  <1>2. CASE JanitorPick
    <2>1. /\ registry # 0
          /\ service[registry].persistent => service[registry].table = Empty
          /\ janitor' = [pc |-> "remove", fresh |-> TRUE]
          /\ UNCHANGED <<registry, service, session, conn, thread, misled>>
      BY <1>2 DEF JanitorPick
    <2>2. TerminalTypeOK'
      BY <2>1 DEF TerminalTypeOK, Object, Sid
    <2>3. RemovalsJustified'
      BY <2>1 DEF RemovalsJustified
    <2> QED
      BY <2>1, <2>2, <2>3 DEF Unique, EndsTracked, ThreadsOK, Cleans, Object, Sid
  <1>3. CASE UNCHANGED vars
    <2>1. UNCHANGED <<registry, service, session, conn, thread, janitor, misled>>
      BY <1>3 DEF vars
    <2>2. TerminalTypeOK'
      BY <2>1 DEF TerminalTypeOK, Object, Sid
    <2>3. Unique' /\ EndsTracked' /\ RemovalsJustified' /\ ThreadsOK'
          /\ \A i \in Sid' : Continuous(session'[i]) /\ ~session'[i].gap
      BY <2>1 DEF Unique, EndsTracked, RemovalsJustified, ThreadsOK, Cleans, Object, Sid
    <2> QED
      BY <2>2, <2>3
  <1> QED
    BY <1>1, <1>2, <1>3

-----------------------------------------------------------------------------
(* The calls of the client.                                                *)

(* A thread whose decision is outdated.                                    *)
Stale(th) == [th EXCEPT !.fresh = (@ /\ th.pc # "remove")]

LEMMA StaleOK ==
    ASSUME TerminalIInv, NEW c \in Conn, thread'[c] = Stale(thread[c]),
           Len(service') \in Nat, Len(service') >= Len(service),
           Len(session') \in Nat, Len(session') >= Len(session)
    PROVE  /\ thread'[c] \in Thread
           /\ ThreadFits(thread[c])'
           /\ \A o, t, i : Cleans(c, o, t, i) => Cleans(c, o, t, i)'
           /\ thread[c] = NoThread => thread'[c] = NoThread
           /\ thread'[c].list = thread[c].list /\ thread'[c].clone = thread[c].clone
  <1> DEFINE f == thread[c].fresh /\ thread[c].pc # "remove"
  <1>0. thread[c] \in Thread /\ ThreadFits(thread[c]) /\ Len(service) \in Nat /\ Len(session) \in Nat
    BY TypeFacts, Fits
  <1>1. thread'[c] = [thread[c] EXCEPT !.fresh = f]
    BY DEF Stale
  <1>2. f \in BOOLEAN /\ (f => thread[c].pc # "remove")
    BY DEF Thread
  <1> HIDE DEF f
  <1>3. /\ thread'[c] \in Thread
        /\ thread'[c].pc = thread[c].pc /\ thread'[c].svc = thread[c].svc
        /\ thread'[c].list = thread[c].list /\ thread'[c].closed = thread[c].closed
        /\ thread'[c].clone = thread[c].clone /\ thread'[c].fresh = f
    BY <1>0, <1>1, <1>2 DEF Thread
  <1>4. ThreadFits(thread[c])'
    <2>1. thread[c].svc \in Nat /\ thread[c].svc <= Len(service')
      BY <1>0 DEF ThreadFits, Thread
    <2>2. \A p \in thread[c].list : p[2] \in 1..Len(session')
      BY <1>0 DEF ThreadFits, Sid
    <2>3. \A t \in Tid : thread[c].clone[t] <= Len(session')
      <3>1. \A t \in Tid : thread[c].clone[t] \in Nat /\ thread[c].clone[t] <= Len(session)
        BY <1>0 DEF ThreadFits, Thread
      <3> QED
        BY <1>0, <3>1
    <2>4. IF thread[c].pc \in {"each", "clone", "cleanup"} THEN thread[c].svc # 0
          ELSE thread[c].closed = {}
      BY <1>0 DEF ThreadFits
    <2> QED
      BY <1>2, <1>3, <2>1, <2>2, <2>3, <2>4 DEF ThreadFits, Sid
  <1>5. \A o, t, i : Cleans(c, o, t, i) => Cleans(c, o, t, i)'
    BY <1>3 DEF Cleans
  <1>6. ASSUME thread[c] = NoThread PROVE thread'[c] = NoThread
    <2>1. f = TRUE
      BY <1>6 DEF NoThread, f
    <2>2. thread'[c] = [NoThread EXCEPT !.fresh = TRUE]
      BY <1>1, <1>6, <2>1
    <2>3. \A x \in Thread : x.fresh = TRUE => [x EXCEPT !.fresh = TRUE] = x
      BY DEF Thread
    <2>4. [NoThread EXCEPT !.fresh = TRUE] = NoThread
      <3>1. NoThread.fresh = TRUE
        BY DEF NoThread
      <3> QED
        BY <2>3, <3>1, NoThreadOK
    <2> QED
      BY <2>2, <2>4
  <1> QED
    BY <1>3, <1>4, <1>5, <1>6

LEMMA JanitorStale ==
    ASSUME TerminalIInv, janitor' = [janitor EXCEPT !.fresh = (@ /\ janitor.pc # "remove")]
    PROVE  /\ janitor' \in [pc : {"look", "remove"}, fresh : BOOLEAN]
           /\ ~(janitor'.pc = "remove" /\ janitor'.fresh)
  <1> DEFINE f == janitor.fresh /\ janitor.pc # "remove"
  <1>1. janitor \in [pc : {"look", "remove"}, fresh : BOOLEAN]
    BY DEF TerminalIInv, TerminalTypeOK
  <1>2. f \in BOOLEAN /\ (f => janitor.pc # "remove")
    OBVIOUS
  <1>3. janitor' = [janitor EXCEPT !.fresh = f]
    OBVIOUS
  <1> HIDE DEF f
  <1> QED
    BY <1>1, <1>2, <1>3

LEMMA OutdatedOK ==
    ASSUME TerminalIInv, Outdated,
           Len(service') \in Nat, Len(service') >= Len(service),
           Len(session') \in Nat, Len(session') >= Len(session)
    PROVE  /\ thread' \in [Conn -> Thread]
           /\ \A c \in Conn : ThreadFits(thread[c])'
           /\ \A c \in Conn : \A o, t, i : Cleans(c, o, t, i) => Cleans(c, o, t, i)'
           /\ \A c \in Conn : thread[c] = NoThread => thread'[c] = NoThread
           /\ janitor' \in [pc : {"look", "remove"}, fresh : BOOLEAN]
           /\ ~(janitor'.pc = "remove" /\ janitor'.fresh)
  <1>1. thread' = [c \in Conn |-> Stale(thread[c])]
    BY DEF Outdated, Stale
  <1>2. \A c \in Conn : thread'[c] = Stale(thread[c])
    BY <1>1
  <1>3. \A c \in Conn : thread'[c] \in Thread
    BY <1>2, StaleOK
  <1>4. thread' \in [Conn -> Thread]
    BY <1>1, <1>3
  <1>5. janitor' = [janitor EXCEPT !.fresh = (@ /\ janitor.pc # "remove")]
    BY DEF Outdated
  <1> QED
    BY <1>2, <1>4, <1>5, JanitorStale, StaleOK

(* The other parts of the state, which the types describe.                 *)
LEMMA Rest ==
    ASSUME TerminalIInv
    PROVE  /\ service \in Seq(Service) /\ session \in Seq(Session)
           /\ conn \in [Conn -> {"new", "open", "closed"}]
           /\ janitor \in [pc : {"look", "remove"}, fresh : BOOLEAN]
           /\ misled \subseteq 1..Len(session)
           /\ \A c \in Conn : conn[c] = "new" => thread[c] = NoThread
  BY DEF TerminalIInv, TerminalTypeOK, ThreadsOK, Sid

LEMMA SetPersistentKeeps ==
    ASSUME TerminalIInv, NEW c \in Conn, NEW b \in BOOLEAN, SetPersistent(c, b)
    PROVE  TerminalIInv'
  <1> DEFINE r == [service[registry] EXCEPT !.persistent = b]
  <1>0. /\ Len(service) \in Nat /\ Len(session) \in Nat /\ registry \in Nat
        /\ registry <= Len(service) /\ service \in [Object -> Service]
        /\ session \in [Sid -> Session]
    BY TypeFacts
  <1>1. /\ registry # 0 /\ Outdated /\ UNCHANGED <<registry, session, conn, misled>>
        /\ service' = [service EXCEPT ![registry].persistent = b]
    BY DEF SetPersistent, Call
  <1>2. registry \in Object
    BY <1>0, <1>1 DEF Object
  <1>3. service' = [service EXCEPT ![registry] = r]
    BY <1>0, <1>1, <1>2
  <1>4. r \in Service /\ r.table = service[registry].table
    BY <1>0, <1>2 DEF Service
  <1> HIDE DEF r
  <1>5. service' \in [Object -> Service]
    BY <1>0, <1>2, <1>3, <1>4
  <1>6. service' \in Seq(Service) /\ Len(service') = Len(service)
    BY <1>0, <1>5, SeqOfFunction DEF Object
  <1>7. \A o \in Object : service'[o].table = service[o].table
    BY <1>0, <1>2, <1>3, <1>4
  <1>8. /\ thread' \in [Conn -> Thread]
        /\ \A d \in Conn : ThreadFits(thread[d])'
        /\ \A d \in Conn : \A o, t, i : Cleans(d, o, t, i) => Cleans(d, o, t, i)'
        /\ \A d \in Conn : thread[d] = NoThread => thread'[d] = NoThread
        /\ janitor' \in [pc : {"look", "remove"}, fresh : BOOLEAN]
        /\ ~(janitor'.pc = "remove" /\ janitor'.fresh)
    BY <1>0, <1>1, <1>6, OutdatedOK
  <1>9. EndsTracked'
    BY <1>1, <1>6, <1>7, <1>8, EndsStay
  <1>10. Unique'
    BY <1>6, <1>7, UniqueStays
  <1>11. /\ registry' \in Nat /\ registry' <= Len(service') /\ session' \in Seq(Session)
         /\ conn' \in [Conn -> {"new", "open", "closed"}] /\ misled' \subseteq 1..Len(session')
         /\ \A d \in Conn : conn'[d] = "new" => thread'[d] = NoThread
    BY <1>0, <1>1, <1>6, <1>8, Rest
  <1>12. \A i \in 1..Len(session') : SessionOK(session'[i])
    BY <1>1, TypeFacts DEF Sid
  <1>13. \A o \in 1..Len(service'), t \in Tid : service'[o].table[t] <= Len(session')
    BY <1>1, <1>6, <1>7, TypeFacts DEF Object
  <1> QED
    BY <1>6, <1>8, <1>9, <1>10, <1>11, <1>12, <1>13, Assemble

(* A connection finds the service, or makes it.                            *)
LEMMA InitKeeps ==
    ASSUME TerminalIInv, NEW c \in Conn, NEW b \in BOOLEAN, InitTerminalService(c, b)
    PROVE  TerminalIInv'
  <1>0. /\ Len(service) \in Nat /\ Len(session) \in Nat /\ registry \in Nat
        /\ registry <= Len(service) /\ service \in [Object -> Service]
        /\ session \in [Sid -> Session] /\ \A i \in Sid : SessionOK(session[i])
        /\ \A o \in Object, t \in Tid : service[o].table[t] <= Len(session)
    BY TypeFacts
  <1>1. /\ conn[c] = "new" /\ conn' = [conn EXCEPT ![c] = "open"]
        /\ janitor' = [janitor EXCEPT !.fresh = (@ /\ janitor.pc # "remove")]
        /\ misled' = misled
    BY DEF InitTerminalService
  <1>2. thread' = [d \in Conn |-> IF d = c THEN [NoThread EXCEPT !.pc = "outer"]
                                  ELSE Stale(thread[d])]
    BY DEF InitTerminalService, Stale
  <1>3. /\ conn' \in [Conn -> {"new", "open", "closed"}]
        /\ conn'[c] = "open" /\ \A d \in Conn \ {c} : conn'[d] = conn[d]
    BY <1>1, Rest
  <1>4. thread[c].closed = {}
    BY <1>1, Rest DEF NoThread
  <1>5. /\ session' \in Seq(Session) /\ Len(session') = Len(session)
        /\ \A i \in Sid : /\ SessionOK(session'[i])
                          /\ session'[i].shell = session[i].shell
                          /\ session'[i].child = session[i].child
                          /\ session'[i].told = session[i].told
    <2>1. CASE registry # 0
      <3>1. session' = [i \in Sid |-> IF InTable(registry, i) THEN [session[i] EXCEPT !.state = "Closed"]
                                      ELSE session[i]]
        BY <2>1 DEF InitTerminalService
      <3>2. ASSUME NEW i \in Sid
            PROVE  /\ SessionOK(session'[i])
                   /\ session'[i].shell = session[i].shell
                   /\ session'[i].child = session[i].child
                   /\ session'[i].told = session[i].told
        <4> DEFINE s == [session[i] EXCEPT !.state = "Closed"]
        <4>1. session[i] \in Session /\ SessionOK(session[i])
          BY <1>0
        <4>2. SessionOK(s)
          BY <4>1, MarkedOK
        <4>3. s.shell = session[i].shell /\ s.child = session[i].child /\ s.told = session[i].told
          BY <4>1 DEF Session
        <4>4. session'[i] = s \/ session'[i] = session[i]
          BY <3>1
        <4> HIDE DEF s
        <4> QED
          BY <4>1, <4>2, <4>3, <4>4
      <3>3. session' \in [Sid -> Session]
        BY <3>1, <3>2 DEF SessionOK
      <3>4. session' \in Seq(Session) /\ Len(session') = Len(session)
        BY <1>0, <3>3, SeqOfFunction DEF Sid
      <3> QED
        BY <3>2, <3>4
    <2>2. CASE registry = 0
      <3>1. session' = session
        BY <2>2 DEF InitTerminalService
      <3> QED
        BY <1>0, <3>1, Rest
    <2> QED
      BY <2>1, <2>2
  <1>6. /\ service' \in Seq(Service) /\ Len(service') >= Len(service)
        /\ registry' \in Nat /\ registry' <= Len(service')
        /\ \A o \in Object : service'[o].table = service[o].table
        /\ \A o \in 1..Len(service') : o \notin Object => service'[o].table = Empty
    <2>1. CASE registry # 0
      <3> DEFINE v == [service[registry] EXCEPT !.persistent = b, !.sync = TRUE]
      <3>1. registry \in Object
        BY <1>0, <2>1 DEF Object
      <3>2. service' = [service EXCEPT ![registry] = v] /\ registry' = registry
        BY <1>0, <2>1, <3>1 DEF InitTerminalService
      <3>3. v \in Service /\ v.table = service[registry].table
        BY <1>0, <3>1 DEF Service
      <3> HIDE DEF v
      <3>4. service' \in [Object -> Service] /\ \A o \in Object : service'[o].table = service[o].table
        BY <1>0, <3>1, <3>2, <3>3
      <3>5. service' \in Seq(Service) /\ Len(service') = Len(service)
        BY <1>0, <3>4, SeqOfFunction DEF Object
      <3> QED
        BY <1>0, <3>2, <3>4, <3>5 DEF Object
    <2>2. CASE registry = 0
      <3> DEFINE v == [persistent |-> b, sync |-> TRUE, table |-> Empty]
      <3>1. service' = Append(service, v) /\ registry' = Len(service')
        BY <2>2 DEF InitTerminalService
      <3>2. v \in Service /\ v.table = Empty
        BY DEF Service, Empty
      <3> HIDE DEF v
      <3>3. service \in Seq(Service)
        BY Rest
      <3>4. /\ service' \in Seq(Service) /\ Len(service') = Len(service) + 1
            /\ service'[Len(service) + 1] = v
            /\ \A o \in 1..Len(service) : service'[o] = service[o]
        BY <3>1, <3>2, <3>3
      <3>5. \A o \in 1..Len(service') : o \notin Object => o = Len(service) + 1
        BY <1>0, <3>4 DEF Object
      <3> QED
        BY <1>0, <3>1, <3>2, <3>4, <3>5 DEF Object
    <2> QED
      BY <2>1, <2>2
  <1>7. Len(service') \in Nat /\ Len(session') \in Nat
    BY <1>5, <1>6
  <1>8. \A d \in Conn \ {c} :
           /\ thread'[d] \in Thread
           /\ ThreadFits(thread[d])'
           /\ \A o, t, i : Cleans(d, o, t, i) => Cleans(d, o, t, i)'
           /\ thread[d] = NoThread => thread'[d] = NoThread
    <2>1. \A d \in Conn \ {c} : thread'[d] = Stale(thread[d])
      BY <1>2
    <2>2. Len(session') >= Len(session)
      BY <1>0, <1>5
    <2> QED
      BY <1>0, <1>5, <1>6, <1>7, <2>1, <2>2, StaleOK
  <1>9. thread'[c] \in Thread /\ ThreadFits(thread[c])'
    <2> DEFINE th == [NoThread EXCEPT !.pc = "outer"]
    <2>1. thread'[c] = th
      BY <1>2
    <2>2. /\ th \in Thread /\ th.pc = "outer" /\ th.svc = 0 /\ th.list = {}
          /\ th.closed = {} /\ th.clone = Empty
      BY NoThreadOK DEF NoThread, Thread, Labels
    <2> HIDE DEF th
    <2> QED
      BY <1>7, <2>1, <2>2 DEF ThreadFits, Empty
  <1>10. /\ thread' \in [Conn -> Thread]
         /\ \A d \in Conn : ThreadFits(thread[d])'
         /\ \A d \in Conn : conn'[d] = "new" => thread'[d] = NoThread
    <2>1. \A d \in Conn : thread'[d] \in Thread
      BY <1>8, <1>9
    <2> QED
      BY <1>2, <1>3, <1>8, <1>9, <2>1, Rest
  <1>11. EndsTracked'
    <2> SUFFICES ASSUME NEW o \in 1..Len(service'), NEW t \in Tid, NEW i, i = service'[o].table[t],
                        i # 0, i \notin misled', session'[i].shell # "stopped"
                 PROVE  /\ session'[i].child
                        /\ session'[i].told => \E d \in Conn : Cleans(d, o, t, i)'
      BY DEF EndsTracked, Object
    <2>1. o \in Object
      BY <1>6 DEF Empty
    <2>2. i = service[o].table[t] /\ i \in Sid
      BY <1>6, <2>1, TypeFacts DEF Sid
    <2>3. /\ session[i].child
          /\ session[i].told => \E d \in Conn : Cleans(d, o, t, i)
      BY <1>1, <1>5, <2>1, <2>2 DEF EndsTracked, TerminalIInv
    <2>4. \A d \in Conn : Cleans(d, o, t, i) => Cleans(d, o, t, i)'
      <3>1. ~Cleans(c, o, t, i)
        BY <1>4 DEF Cleans
      <3> QED
        BY <1>8, <3>1
    <2> QED
      BY <1>5, <2>2, <2>3, <2>4
  <1>12. Unique'
    <2>1. \A o \in 1..Len(service'), t \in Tid : service'[o].table[t] # 0
             => o \in Object /\ service'[o].table[t] = service[o].table[t]
      BY <1>6 DEF Empty
    <2> QED
      BY <2>1 DEF Unique, Object, TerminalIInv
  <1>13. \A o \in 1..Len(service'), t \in Tid : service'[o].table[t] <= Len(session')
    BY <1>0, <1>5, <1>6, <1>7 DEF Empty
  <1>14. /\ janitor' \in [pc : {"look", "remove"}, fresh : BOOLEAN]
         /\ ~(janitor'.pc = "remove" /\ janitor'.fresh)
    BY <1>1, JanitorStale
  <1>15. misled' \subseteq 1..Len(session') /\ \A i \in 1..Len(session') : SessionOK(session'[i])
    BY <1>1, <1>5, Rest DEF Sid
  <1> QED
    BY <1>3, <1>5, <1>6, <1>10, <1>11, <1>12, <1>13, <1>14, <1>15, Assemble

(* A set of natural numbers that is not empty has a smallest one.          *)
LEMMA MinIn ==
    ASSUME NEW S \in SUBSET Nat, S # {}
    PROVE  Min(S) \in S
  <1>1. PICK x \in S : \A y \in S : ~(<<y, x>> \in OpToRel(<, Nat))
    BY WFMin, NatLessThanWellFounded, Zenon
  <1>2. \A y \in S : ~(y < x)
    BY <1>1, Zenon DEF OpToRel
  <1>3. \A y \in S : x <= y
    BY <1>2
  <1>4. \E z \in S : \A y \in S : z <= y
    BY <1>3
  <1> QED
    BY <1>4 DEF Min

(* One service object changes.                                             *)
LEMMA ServiceStep ==
    ASSUME TerminalIInv, NEW r \in Object, NEW v \in Service, service' = [service EXCEPT ![r] = v]
    PROVE  /\ service' \in Seq(Service) /\ Len(service') = Len(service)
           /\ service'[r] = v
           /\ \A o \in Object : o # r => service'[o] = service[o]
  <1>1. service \in [1..Len(service) -> Service] /\ Len(service) \in Nat
    BY TypeFacts DEF Object
  <1>2. service' \in [1..Len(service) -> Service]
    BY <1>1 DEF Object
  <1>3. service' \in Seq(Service) /\ Len(service') = Len(service)
    BY <1>1, <1>2, SeqOfFunction
  <1> QED
    BY <1>1, <1>3 DEF Object

(* No session is changed but i.                                            *)
LEMMA SessionStep ==
    ASSUME TerminalIInv, NEW i \in Sid, NEW s, SessionOK(s), session' = [session EXCEPT ![i] = s]
    PROVE  /\ session' \in Seq(Session) /\ Len(session') = Len(session)
           /\ session'[i] = s
           /\ \A k \in Sid : k # i => session'[k] = session[k]
           /\ \A k \in 1..Len(session') : SessionOK(session'[k])
  <1>1. session \in [1..Len(session) -> Session] /\ Len(session) \in Nat
        /\ \A k \in Sid : SessionOK(session[k])
    BY TypeFacts DEF Sid
  <1>2. s \in Session
    BY DEF SessionOK
  <1>3. session' \in [1..Len(session) -> Session]
    BY <1>1, <1>2 DEF Sid
  <1>4. session' \in Seq(Session) /\ Len(session') = Len(session)
    BY <1>1, <1>3, SeqOfFunction
  <1>5. session'[i] = s /\ \A k \in Sid : k # i => session'[k] = session[k]
    BY <1>1 DEF Sid
  <1>6. \A k \in 1..Len(session') : SessionOK(session'[k])
    BY <1>1, <1>4, <1>5 DEF Sid
  <1> QED
    BY <1>4, <1>5, <1>6

(* A session is dropped: stopped, or without its child.                    *)
LEMMA DroppedOK ==
    ASSUME TerminalIInv, NEW i \in Sid, NEW D
    PROVE  SessionOK(Dropped(i, D))
  <1>1. session[i] \in Session /\ SessionOK(session[i])
    BY TypeFacts
  <1> QED
    BY <1>1, MarkedOK, StoppedOK DEF Dropped

(* A step that leaves the threads alone, and the persistence of the        *)
(* services.                                                               *)
LEMMA ThreadsStay ==
    ASSUME TerminalIInv, thread' = thread, registry' = registry,
           Len(service') = Len(service), Len(session') = Len(session),
           \A o \in Object : service'[o].persistent = service[o].persistent
    PROVE  \A c \in Conn : ThreadFits(thread[c])'
  <1>1. registry # 0 => service'[registry].persistent = service[registry].persistent
    BY TypeFacts DEF Object
  <1>2. Sid' = Sid
    BY DEF Sid
  <1> QED
    BY <1>1, <1>2, Fits DEF ThreadFits

LEMMA CloseKeeps ==
    ASSUME TerminalIInv, NEW c \in Conn, NEW t \in Tid, CloseTerminal(c, t)
    PROVE  TerminalIInv'
  <1> DEFINE v == service[registry]
             i == v.table[t]
             table == [v.table EXCEPT ![t] = 0]
             w == [v EXCEPT !.table = table]
             x == IF Dropped(i, Conn).shell = "up" THEN "exited" ELSE Dropped(i, Conn).shell
             s == [Dropped(i, Conn) EXCEPT !.shell = x]
  <1>0. /\ Len(service) \in Nat /\ Len(session) \in Nat /\ registry \in Nat
        /\ registry <= Len(service) /\ service \in [Object -> Service]
        /\ session \in [Sid -> Session]
        /\ \A o \in Object, u \in Tid : service[o].table[u] \in Nat /\ service[o].table[u] <= Len(session)
    BY TypeFacts
  <1>1. /\ registry # 0 /\ i # 0
        /\ UNCHANGED <<registry, conn, thread, janitor, misled>>
    BY DEF CloseTerminal, Call
  <1>2. registry \in Object /\ v \in Service
    BY <1>0, <1>1 DEF Object
  <1>3. i \in Sid
    BY <1>0, <1>1, <1>2 DEF Sid
  <1>4. v.table \in [Tid -> Nat]
    BY <1>2 DEF Service
  <1>5. /\ w \in Service /\ w.table = table /\ w.persistent = v.persistent
        /\ table[t] = 0 /\ \A u \in Tid : u # t => table[u] = v.table[u]
    BY <1>2, <1>4 DEF Service
  <1>6. service' = [service EXCEPT ![registry] = w]
    BY <1>0, <1>2 DEF CloseTerminal, Service
  <1>7. session' = [session EXCEPT ![i] = s]
    BY DEF CloseTerminal
  <1>8. SessionOK(s)
    <2>1. Dropped(i, Conn) \in Session /\ SessionOK(Dropped(i, Conn))
      BY <1>3, DroppedOK DEF SessionOK
    <2>2. x \in {"up", "exited", "stopped"}
      BY <2>1 DEF Session
    <2> HIDE DEF x
    <2> QED
      BY <2>1, <2>2, MarkedOK
  <1> HIDE DEF s, w, table, i, v
  <1>9. /\ service' \in Seq(Service) /\ Len(service') = Len(service)
        /\ service'[registry] = w
        /\ \A o \in Object : o # registry => service'[o] = service[o]
    BY <1>2, <1>5, <1>6, ServiceStep
  <1>10. /\ session' \in Seq(Session) /\ Len(session') = Len(session)
         /\ \A k \in Sid : k # i => session'[k] = session[k]
         /\ \A k \in 1..Len(session') : SessionOK(session'[k])
    BY <1>3, <1>7, <1>8, SessionStep
  <1>11. \A o \in Object, u \in Tid : service'[o].table[u] # 0
            => service'[o].table[u] = service[o].table[u] /\ ~(o = registry /\ u = t)
    BY <1>2, <1>5, <1>9 DEF v
  <1>12. Unique'
    BY <1>9, <1>11 DEF Unique, Object, TerminalIInv
  <1>13. \A o \in Object, u \in Tid : service'[o].table[u] # 0 => service'[o].table[u] # i
    BY <1>1, <1>2, <1>11 DEF Unique, TerminalIInv, i, v
  <1>14. EndsTracked'
    <2> SUFFICES ASSUME NEW o \in Object, NEW u \in Tid, NEW k, k = service'[o].table[u],
                        k # 0, k \notin misled, session'[k].shell # "stopped"
                 PROVE  /\ session'[k].child
                        /\ session'[k].told => \E d \in Conn : Cleans(d, o, u, k)'
      BY <1>1, <1>9 DEF EndsTracked, Object
    <2>1. k = service[o].table[u] /\ k # i
      BY <1>11, <1>13
    <2>2. k \in Sid
      BY <1>0, <2>1 DEF Sid
    <2>3. session'[k] = session[k]
      BY <1>10, <2>1, <2>2
    <2>4. /\ session[k].child
          /\ session[k].told => \E d \in Conn : Cleans(d, o, u, k)
      BY <2>1, <2>3 DEF EndsTracked, TerminalIInv
    <2> QED
      BY <1>1, <2>3, <2>4 DEF Cleans
  <1>15. \A d \in Conn : ThreadFits(thread[d])'
    <2>1. \A o \in Object : service'[o].persistent = service[o].persistent
      BY <1>2, <1>5, <1>9 DEF v
    <2> QED
      BY <1>1, <1>9, <1>10, <2>1, ThreadsStay
  <1>16. janitor'.pc = "remove" /\ janitor'.fresh /\ registry' # 0
            => (service'[registry'].persistent => service'[registry'].table = Empty)
    <2>1. janitor.pc = "remove" /\ janitor.fresh => (v.persistent => v.table = Empty)
      BY <1>1 DEF TerminalIInv, RemovalsJustified, v
    <2>2. v.table # Empty
      BY <1>1 DEF Empty, i
    <2> QED
      BY <1>1, <1>5, <1>9, <2>1, <2>2
  <1>17. \A o \in 1..Len(service'), u \in Tid : service'[o].table[u] <= Len(session')
    BY <1>0, <1>9, <1>10, <1>11 DEF Object
  <1>18. /\ registry' \in Nat /\ registry' <= Len(service')
         /\ conn' \in [Conn -> {"new", "open", "closed"}] /\ misled' \subseteq 1..Len(session')
         /\ \A d \in Conn : conn'[d] = "new" => thread'[d] = NoThread
         /\ thread' \in [Conn -> Thread]
         /\ janitor' \in [pc : {"look", "remove"}, fresh : BOOLEAN]
    BY <1>0, <1>1, <1>9, <1>10, Rest, TypeFacts
  <1> QED
    BY <1>9, <1>10, <1>12, <1>14, <1>15, <1>16, <1>17, <1>18, Assemble

LEMMA OpenNewKeeps ==
    ASSUME TerminalIInv, NEW c \in Conn, NEW t \in Tid, OpenNew(c, t)
    PROVE  TerminalIInv'
  <1> DEFINE v == service[registry]
             i == Len(session) + 1
             table == [v.table EXCEPT ![t] = i]
             w == [v EXCEPT !.table = table, !.sync = FALSE]
             s == NewSession(c)
  <1>0. /\ Len(service) \in Nat /\ Len(session) \in Nat /\ registry \in Nat
        /\ registry <= Len(service) /\ service \in [Object -> Service]
        /\ session \in Seq(Session) /\ \A k \in Sid : SessionOK(session[k])
        /\ \A o \in Object, u \in Tid : service[o].table[u] \in Nat /\ service[o].table[u] <= Len(session)
    BY TypeFacts, Rest
  <1>1. /\ registry # 0 /\ Outdated
        /\ UNCHANGED <<registry, conn, misled>>
        /\ session' = Append(session, s)
    BY DEF OpenNew, Call
  <1>2. registry \in Object /\ v \in Service
    BY <1>0, <1>1 DEF Object
  <1>3. SessionOK(s) /\ s \in Session /\ s.child /\ ~s.told
    BY NewSessionOK DEF SessionOK, NewSession
  <1> HIDE DEF s
  <1>4. /\ session' \in Seq(Session) /\ Len(session') = i
        /\ session'[i] = s
        /\ \A k \in 1..Len(session) : session'[k] = session[k]
    BY <1>0, <1>1, <1>3
  <1>5. v.table \in [Tid -> Nat] /\ i \in Nat
    BY <1>0, <1>2 DEF Service
  <1>6. /\ w \in Service /\ w.table = table /\ w.persistent = v.persistent
        /\ table[t] = i /\ \A u \in Tid : u # t => table[u] = v.table[u]
    <2> HIDE DEF i
    <2> QED
      BY <1>2, <1>5 DEF Service
  <1>7. service' = [service EXCEPT ![registry] = w]
    BY <1>0, <1>2, <1>4 DEF OpenNew, Service
  <1> HIDE DEF w, table, v
  <1>8. /\ service' \in Seq(Service) /\ Len(service') = Len(service)
        /\ service'[registry] = w
        /\ \A o \in Object : o # registry => service'[o] = service[o]
    BY <1>2, <1>6, <1>7, ServiceStep
  <1>9. \A k \in 1..Len(session') : SessionOK(session'[k])
    <2>1. \A k \in 1..Len(session') : k = i \/ k \in Sid
      BY <1>0, <1>4 DEF Sid
    <2> QED
      BY <1>0, <1>3, <1>4, <2>1 DEF Sid
  <1>10. \A o \in Object, u \in Tid :
            IF o = registry /\ u = t THEN service'[o].table[u] = i
            ELSE service'[o].table[u] = service[o].table[u] /\ service[o].table[u] # i
    <2>1. \A o \in Object, u \in Tid : service[o].table[u] # i
      BY <1>0
    <2> HIDE DEF i
    <2> QED
      BY <1>2, <1>6, <1>8, <2>1 DEF v
  <1>11. Unique'
    <2> HIDE DEF i
    <2> QED
      BY <1>8, <1>10 DEF Unique, Object, TerminalIInv
  <1>12. /\ thread' \in [Conn -> Thread]
         /\ \A d \in Conn : ThreadFits(thread[d])'
         /\ \A d \in Conn : \A o, u, k : Cleans(d, o, u, k) => Cleans(d, o, u, k)'
         /\ \A d \in Conn : thread[d] = NoThread => thread'[d] = NoThread
         /\ janitor' \in [pc : {"look", "remove"}, fresh : BOOLEAN]
         /\ ~(janitor'.pc = "remove" /\ janitor'.fresh)
    <2>1. /\ Len(service') \in Nat /\ Len(service') >= Len(service)
          /\ Len(session') \in Nat /\ Len(session') >= Len(session)
      BY <1>0, <1>4, <1>8
    <2> QED
      BY <1>1, <2>1, OutdatedOK
  <1>13. EndsTracked'
    <2> SUFFICES ASSUME NEW o \in Object, NEW u \in Tid, NEW k, k = service'[o].table[u],
                        k # 0, k \notin misled, session'[k].shell # "stopped"
                 PROVE  /\ session'[k].child
                        /\ session'[k].told => \E d \in Conn : Cleans(d, o, u, k)'
      BY <1>1, <1>8 DEF EndsTracked, Object
    <2>1. CASE o = registry /\ u = t
      <3>1. k = i
        BY <1>10, <2>1
      <3> QED
        BY <1>3, <1>4, <3>1
    <2>2. CASE ~(o = registry /\ u = t)
      <3>1. k = service[o].table[u]
        BY <1>10, <2>2
      <3>2. k \in 1..Len(session)
        BY <1>0, <3>1
      <3>3. session'[k] = session[k]
        BY <1>4, <3>2
      <3>4. /\ session[k].child
            /\ session[k].told => \E d \in Conn : Cleans(d, o, u, k)
        BY <3>1, <3>3 DEF EndsTracked, TerminalIInv
      <3> QED
        BY <1>12, <3>3, <3>4
    <2> QED
      BY <2>1, <2>2
  <1>14. \A o \in 1..Len(service'), u \in Tid : service'[o].table[u] <= Len(session')
    BY <1>0, <1>4, <1>5, <1>8, <1>10 DEF Object
  <1>15. misled' \subseteq 1..Len(session')
    BY <1>0, <1>1, <1>4, Rest
  <1>16. /\ registry' \in Nat /\ registry' <= Len(service')
         /\ conn' \in [Conn -> {"new", "open", "closed"}]
         /\ \A d \in Conn : conn'[d] = "new" => thread'[d] = NoThread
    BY <1>0, <1>1, <1>8, <1>12, Rest
  <1> QED
    BY <1>4, <1>8, <1>9, <1>11, <1>12, <1>13, <1>14, <1>15, <1>16, Assemble

(* A table and what a remap makes of it: the same sessions, under other    *)
(* ids at most; the session under t is there already.                      *)
LEMMA RemappedOK ==
    ASSUME NEW v \in Service, NEW t \in Tid, Remapped(v, t)[t] # 0
    PROVE  /\ Remapped(v, t) \in [Tid -> Nat]
           /\ \E u \in Tid : /\ v.table[u] = Remapped(v, t)[t]
                             /\ u # t => Remapped(v, t)[u] = 0
                             /\ \A x \in Tid : x # u /\ x # t => Remapped(v, t)[x] = v.table[x]
                             /\ u = t => Remapped(v, t) = v.table
  <1> DEFINE used == {u \in Tid : v.table[u] # 0}
             m == Min(used)
  <1>0. v.table \in [Tid -> Nat]
    BY DEF Service
  <1>1. CASE v.table[t] = 0 /\ v.sync /\ used # {}
    <2>1. Remapped(v, t) = [v.table EXCEPT ![t] = v.table[m], ![m] = 0]
      BY <1>1 DEF Remapped
    <2>2. used \in SUBSET Nat
      BY TerminalAssumption
    <2>3. m \in used
      <3> HIDE DEF used
      <3> QED
        BY <1>1, <2>2, MinIn
    <2>4. m \in Tid /\ m # t /\ v.table[m] \in Nat
      BY <1>0, <1>1, <2>3
    <2> HIDE DEF m, used
    <2> QED
      BY <1>0, <2>1, <2>4
  <1>2. CASE ~(v.table[t] = 0 /\ v.sync /\ used # {})
    <2>1. Remapped(v, t) = v.table
      BY <1>2 DEF Remapped
    <2> QED
      BY <1>0, <2>1
  <1> QED
    BY <1>1, <1>2

LEMMA OpenExistingKeeps ==
    ASSUME TerminalIInv, NEW c \in Conn, NEW t \in Tid, OpenExisting(c, t)
    PROVE  TerminalIInv'
  <1> DEFINE v == service[registry]
             table == Remapped(v, t)
             i == table[t]
             w == [v EXCEPT !.table = table, !.sync = FALSE]
             s == [Reopened(session[i]) EXCEPT !.viewer = c,
                                               !.last = Max({0, session[i].made - Recent})]
  <1>0. /\ Len(service) \in Nat /\ Len(session) \in Nat /\ registry \in Nat
        /\ registry <= Len(service) /\ service \in [Object -> Service]
        /\ session \in [Sid -> Session] /\ \A k \in Sid : SessionOK(session[k])
        /\ \A o \in Object, u \in Tid : service[o].table[u] \in Nat /\ service[o].table[u] <= Len(session)
    BY TypeFacts
  <1>1. /\ registry # 0 /\ i # 0
        /\ UNCHANGED <<registry, conn, thread, janitor>>
        /\ service' = [service EXCEPT ![registry] = w]
        /\ session' = [session EXCEPT ![i] = s]
        /\ misled' = IF table # v.table /\ session[i].told THEN misled \cup {i} ELSE misled
    <2>1. /\ registry # 0 /\ i # 0
          /\ UNCHANGED <<registry, conn, thread, janitor>>
          /\ service' = [service EXCEPT ![registry] = w]
          /\ misled' = IF table # v.table /\ session[i].told THEN misled \cup {i} ELSE misled
      BY DEF OpenExisting, Call
    <2>2. session' = [session EXCEPT ![i] = s]
      BY Zenon DEF OpenExisting
    <2> QED
      BY <2>1, <2>2
  <1>2. registry \in Object /\ v \in Service
    BY <1>0, <1>1 DEF Object
  <1>3. PICK m \in Tid : /\ table \in [Tid -> Nat]
                         /\ v.table[m] = i
                         /\ m # t => table[m] = 0
                         /\ \A x \in Tid : x # m /\ x # t => table[x] = v.table[x]
                         /\ m = t => table = v.table
    BY <1>1, <1>2, RemappedOK
  <1>4. i \in Sid
    BY <1>0, <1>1, <1>2, <1>3 DEF Sid
  <1>5. SessionOK(s) /\ s.told = session[i].told /\ s.child = session[i].child
        /\ s.shell = session[i].shell
    <2>1. session[i] \in Session /\ SessionOK(session[i])
      BY <1>0, <1>4
    <2>2. SessionOK(s)
      BY <2>1, ReopenedOK
    <2>3. s.told = session[i].told /\ s.child = session[i].child /\ s.shell = session[i].shell
      BY <2>1 DEF Session, Reopened
    <2> QED
      BY <2>2, <2>3
  <1> HIDE DEF s, i, table
  <1>6. w \in Service /\ w.table = table /\ w.persistent = v.persistent
    BY <1>2, <1>3 DEF Service
  <1> HIDE DEF w, v
  <1>7. /\ service' \in Seq(Service) /\ Len(service') = Len(service)
        /\ service'[registry] = w
        /\ \A o \in Object : o # registry => service'[o] = service[o]
    BY <1>1, <1>2, <1>6, ServiceStep
  <1>8. /\ session' \in Seq(Session) /\ Len(session') = Len(session)
        /\ session'[i] = s
        /\ \A k \in Sid : k # i => session'[k] = session[k]
        /\ \A k \in 1..Len(session') : SessionOK(session'[k])
    BY <1>1, <1>4, <1>5, SessionStep
  (* Where a session is, it was, or it is the one that was under m.        *)
  <1>9. \A o \in Object, u \in Tid : service'[o].table[u] # 0 =>
           \/ /\ service'[o].table[u] = service[o].table[u]
              /\ ~(o = registry /\ u = m /\ m # t)
              /\ ~(o = registry /\ u = t /\ m # t)
           \/ o = registry /\ u = t /\ m # t /\ service'[o].table[u] = service[registry].table[m]
    <2>1. t \in Tid /\ i = table[t]
      BY DEF i
    <2> QED
      BY <1>2, <1>3, <1>6, <1>7, <2>1 DEF v
  <1>10. Unique'
    <2> SUFFICES ASSUME NEW o \in Object, NEW p \in Object, NEW x \in Tid, NEW u \in Tid,
                        service'[o].table[x] # 0, service'[o].table[x] = service'[p].table[u]
                 PROVE  o = p /\ x = u
      BY <1>7 DEF Unique, Object
    <2>1. \A a, b \in Object : \A y, z \in Tid :
             service[a].table[y] # 0 /\ service[a].table[y] = service[b].table[z] => a = b /\ y = z
      BY DEF Unique, TerminalIInv
    <2> QED
      BY <1>2, <1>9, <2>1
  <1>11. EndsTracked'
    <2> SUFFICES ASSUME NEW o \in Object, NEW u \in Tid, NEW k, k = service'[o].table[u],
                        k # 0, k \notin misled', session'[k].shell # "stopped"
                 PROVE  /\ session'[k].child
                        /\ session'[k].told => \E d \in Conn : Cleans(d, o, u, k)'
      BY <1>7 DEF EndsTracked, Object
    <2>1. k \notin misled
      BY <1>1
    <2>2. k \in Sid /\ (k = service[o].table[u] \/ k = service[registry].table[m])
      BY <1>0, <1>2, <1>9 DEF Sid
    <2>3. /\ session'[k].shell = session[k].shell /\ session'[k].told = session[k].told
          /\ session'[k].child = session[k].child
      BY <1>5, <1>8, <2>2
    <2>4. \A a \in Object, y \in Tid : service[a].table[y] = k =>
             /\ session[k].child
             /\ session[k].told => \E d \in Conn : Cleans(d, a, y, k)
      BY <2>1, <2>3 DEF EndsTracked, TerminalIInv
    <2>5. session'[k].child
      BY <1>2, <2>2, <2>3, <2>4
    <2>6. ASSUME session'[k].told PROVE \E d \in Conn : Cleans(d, o, u, k)'
      <3>1. k = service[o].table[u]
        <4> SUFFICES ASSUME o = registry, u = t, m # t, k = service[registry].table[m]
                     PROVE  FALSE
          BY <1>9
        <4>1. k = i
          BY <1>3 DEF v
        <4>2. table # v.table
          BY <1>1, <1>3
        <4> QED
          BY <1>1, <2>3, <2>6, <4>1, <4>2
      <3> QED
        BY <1>1, <2>3, <2>4, <2>6, <3>1 DEF Cleans
    <2> QED
      BY <2>5, <2>6
  <1>12. \A d \in Conn : ThreadFits(thread[d])'
    <2>1. \A o \in Object : service'[o].persistent = service[o].persistent
      BY <1>2, <1>6, <1>7 DEF v
    <2> QED
      BY <1>1, <1>7, <1>8, <2>1, ThreadsStay
  <1>13. janitor'.pc = "remove" /\ janitor'.fresh /\ registry' # 0
            => (service'[registry'].persistent => service'[registry'].table = Empty)
    <2>1. janitor.pc = "remove" /\ janitor.fresh => (v.persistent => v.table = Empty)
      BY <1>1 DEF TerminalIInv, RemovalsJustified, v
    <2>2. v.table # Empty
      BY <1>1, <1>3 DEF Empty
    <2> QED
      BY <1>1, <1>6, <1>7, <2>1, <2>2
  <1>14. \A o \in 1..Len(service'), u \in Tid : service'[o].table[u] <= Len(session')
    <2>1. \A o \in Object, u \in Tid : \E a \in Object, y \in Tid :
             service'[o].table[u] = 0 \/ service'[o].table[u] = service[a].table[y]
      BY <1>2, <1>9
    <2>2. \A o \in Object, u \in Tid : service'[o].table[u] <= Len(session)
      <3> SUFFICES ASSUME NEW o \in Object, NEW u \in Tid
                   PROVE  service'[o].table[u] <= Len(session)
        OBVIOUS
      <3>1. PICK a \in Object, y \in Tid :
               service'[o].table[u] = 0 \/ service'[o].table[u] = service[a].table[y]
        BY <2>1
      <3>2. service[a].table[y] <= Len(session) /\ 0 <= Len(session)
        BY <1>0
      <3> QED
        BY <3>1, <3>2
    <2> QED
      BY <1>7, <1>8, <2>2 DEF Object
  <1>15. misled' \subseteq 1..Len(session')
    BY <1>1, <1>4, <1>8, Rest DEF Sid
  <1>16. /\ registry' \in Nat /\ registry' <= Len(service')
         /\ conn' \in [Conn -> {"new", "open", "closed"}]
         /\ \A d \in Conn : conn'[d] = "new" => thread'[d] = NoThread
         /\ thread' \in [Conn -> Thread]
         /\ janitor' \in [pc : {"look", "remove"}, fresh : BOOLEAN]
    BY <1>0, <1>1, <1>7, Rest, TypeFacts
  <1> QED
    BY <1>7, <1>8, <1>10, <1>11, <1>12, <1>13, <1>14, <1>15, <1>16, Assemble

-----------------------------------------------------------------------------
(* The thread polls a session: one whose end it notices is to be cleaned   *)
(* up under the id that the thread knows.                                  *)
LEMMA EachKeeps ==
    ASSUME TerminalIInv, NEW c \in Conn, NEW p \in thread[c].list, Each(c, p)
    PROVE  TerminalIInv'
  <1> DEFINE i == p[2]
             s == session[i]
             ended == Ended(s)
             r == Polled(c, p, s, ended)
             id == IF ended THEN {p[1]} ELSE {}
             o == thread[c].svc
             th == After(c, p, id)
  <1>0. /\ Len(service) \in Nat /\ Len(session) \in Nat /\ registry \in Nat
        /\ registry <= Len(service)
        /\ session \in [Sid -> Session] /\ \A k \in Sid : SessionOK(session[k])
        /\ \A a \in Object, u \in Tid : service[a].table[u] \in Nat /\ service[a].table[u] <= Len(session)
        /\ thread \in [Conn -> Thread] /\ thread[c] \in Thread
        /\ \A q \in thread[c].list : q[2] \in Sid
        /\ thread[c].svc <= Len(service)
    BY TypeFacts
  <1>1. /\ thread[c].pc = "each"
        /\ UNCHANGED <<registry, service, conn, janitor>>
        /\ misled' = IF ended /\ service[o].table[p[1]] # i THEN misled \cup {i} ELSE misled
    BY DEF Each
  <1>2. session' = [session EXCEPT ![i] = r]
    BY Zenon DEF Each, Polled
  <1>3. thread' = [thread EXCEPT ![c] = th]
    <2>1. Looked(c, p, id)
      BY Zenon DEF Each
    <2> HIDE DEF id
    <2> QED
      BY <1>0, <2>1 DEF Looked, After
  <1>4. i \in Sid /\ p[1] \in Tid
    BY <1>0 DEF Thread
  <1>5. ended \in BOOLEAN
    BY DEF Ended
  <1>6. SessionOK(r) /\ r.told = (s.told \/ ended) /\ r.shell = s.shell /\ r.child = s.child
    <2>1. s \in Session /\ SessionOK(s)
      BY <1>0, <1>4
    <2> HIDE DEF s, ended
    <2> QED
      BY <1>5, <2>1, PolledOK
  <1>7. id \in SUBSET Tid /\ (ended => id = {p[1]})
    BY <1>4
  <1> HIDE DEF id, r, ended
  <1>8. /\ ThreadFits(th) /\ th.closed = thread[c].closed \cup id
        /\ th.closed # {} => th.svc = thread[c].svc
        /\ th.pc # "cleanup"
    BY <1>1, <1>7, AfterOK
  <1> HIDE DEF th
  <1>9. o \in Object
    BY <1>0, <1>1 DEF TerminalIInv, ThreadsOK, Object, Thread
  <1> HIDE DEF i
  <1>10. /\ session' \in Seq(Session) /\ Len(session') = Len(session)
         /\ session'[i] = r
         /\ \A k \in Sid : k # i => session'[k] = session[k]
         /\ \A k \in 1..Len(session') : SessionOK(session'[k])
    BY <1>2, <1>4, <1>6, SessionStep
  <1>11. /\ thread' \in [Conn -> Thread] /\ thread'[c] = th
         /\ \A d \in Conn : d # c => thread'[d] = thread[d]
    BY <1>0, <1>3, <1>8 DEF ThreadFits
  <1>12. \A d \in Conn : ThreadFits(thread[d])'
    <2>1. Sid' = Sid
      BY <1>10 DEF Sid
    <2>2. \A d \in Conn : ThreadFits(thread'[d])
      BY <1>8, <1>11, Fits
    <2> QED
      BY <1>1, <1>10, <2>1, <2>2 DEF ThreadFits
  <1>13. \A d \in Conn : \A a, u, k : Cleans(d, a, u, k) => Cleans(d, a, u, k)'
    BY <1>1, <1>8, <1>11 DEF Cleans
  <1>14. EndsTracked'
    <2> SUFFICES ASSUME NEW a \in Object, NEW u \in Tid, NEW k, k = service[a].table[u],
                        k # 0, k \notin misled', session'[k].shell # "stopped"
                 PROVE  /\ session'[k].child
                        /\ session'[k].told => \E d \in Conn : Cleans(d, a, u, k)'
      BY <1>1 DEF EndsTracked, Object
    <2>1. k \in Sid /\ k \notin misled
      BY <1>0, <1>1 DEF Sid
    <2>2. /\ session'[k].shell = session[k].shell /\ session'[k].child = session[k].child
          /\ session'[k].told => session[k].told \/ (k = i /\ ended)
      BY <1>6, <1>10, <2>1
    <2>3. /\ session[k].child
          /\ session[k].told => \E d \in Conn : Cleans(d, a, u, k)
      BY <2>1, <2>2 DEF EndsTracked, TerminalIInv
    <2>4. ASSUME k = i, ended PROVE Cleans(c, a, u, k)'
      <3>1. service[o].table[p[1]] = k
        BY <1>1, <2>4
      <3>2. o = a /\ p[1] = u
        BY <1>4, <1>9, <3>1 DEF Unique, TerminalIInv
      <3>3. u \in th.closed
        BY <1>7, <1>8, <2>4, <3>2
      <3> QED
        BY <1>8, <1>11, <3>2, <3>3 DEF Cleans
    <2> QED
      BY <1>13, <2>2, <2>3, <2>4
  <1>15. Unique'
    BY <1>1 DEF Unique, Object, TerminalIInv
  <1>16. misled' \subseteq 1..Len(session')
    BY <1>1, <1>4, <1>10, Rest DEF Sid
  <1>17. \A d \in Conn : conn'[d] = "new" => thread'[d] = NoThread
    <2>1. conn[c] # "new"
      BY <1>1, Running
    <2> QED
      BY <1>1, <1>11, <2>1, Rest
  <1>18. /\ registry' \in Nat /\ registry' <= Len(service') /\ service' \in Seq(Service)
         /\ conn' \in [Conn -> {"new", "open", "closed"}]
         /\ janitor' \in [pc : {"look", "remove"}, fresh : BOOLEAN]
    BY <1>0, <1>1, Rest
  <1>19. \A a \in 1..Len(service'), u \in Tid : service'[a].table[u] <= Len(session')
    BY <1>0, <1>1, <1>10 DEF Object
  <1>20. janitor'.pc = "remove" /\ janitor'.fresh /\ registry' # 0
            => (service'[registry'].persistent => service'[registry'].table = Empty)
    BY <1>1 DEF TerminalIInv, RemovalsJustified
  <1> QED
    BY <1>10, <1>11, <1>12, <1>14, <1>15, <1>16, <1>17, <1>18, <1>19, <1>20, Assemble

(* ... and cleans it up, if the id still means that session.               *)
LEMMA CleanupKeeps ==
    ASSUME TerminalIInv, NEW c \in Conn, NEW t \in Tid, CleanupClosed(c, t)
    PROVE  TerminalIInv'
  <1> DEFINE o == thread[c].svc
             i == thread[c].clone[t]
             j == service[o].table[t]
             gone == i # 0 /\ (thread[c].persistent => session[i].told)
             table == [service[o].table EXCEPT ![t] = 0]
             w == [service[o] EXCEPT !.table = table]
             th == IF thread[c].closed = {t} THEN [NoThread EXCEPT !.pc = "top"]
                   ELSE [thread[c] EXCEPT !.closed = thread[c].closed \ {t}]
  <1>0. /\ Len(service) \in Nat /\ Len(session) \in Nat /\ registry \in Nat
        /\ registry <= Len(service) /\ service \in [Object -> Service]
        /\ session \in [Sid -> Session] /\ \A k \in Sid : SessionOK(session[k])
        /\ \A a \in Object, u \in Tid : service[a].table[u] \in Nat /\ service[a].table[u] <= Len(session)
        /\ thread \in [Conn -> Thread] /\ thread[c] \in Thread
        /\ \A u \in Tid : thread[c].clone[u] <= Len(session)
        /\ thread[c].svc <= Len(service)
    BY TypeFacts
  <1>1. /\ thread[c].pc = "cleanup" /\ t \in thread[c].closed
        /\ UNCHANGED <<registry, conn, janitor>>
        /\ service' = IF gone THEN [service EXCEPT ![o].table[t] = 0] ELSE service
        /\ session' = [k \in Sid |-> IF k = j /\ gone THEN Dropped(k, Conn \ {c})
                                     ELSE IF k = i THEN [session[k] EXCEPT !.child = FALSE]
                                     ELSE session[k]]
        /\ misled' = IF i # 0 /\ ~(gone /\ i = j) THEN misled \cup {i} ELSE misled
    BY DEF CleanupClosed
  <1>2. thread' = [thread EXCEPT ![c] = th]
    BY DEF CleanupClosed
  <1>3. o \in Object /\ service[o] \in Service
    <2>1. o # 0
      BY <1>1 DEF TerminalIInv, ThreadsOK
    <2>2. o \in Nat
      BY <1>0 DEF Thread
    <2>3. o \in Object
      BY <1>0, <2>1, <2>2 DEF Object
    <2> QED
      BY <1>0, <2>3
  <1>4. i # 0 => i \in Sid
    <2>1. i \in Nat /\ i <= Len(session)
      BY <1>0 DEF Thread
    <2> QED
      BY <1>0, <2>1 DEF Sid
  <1>5. /\ w \in Service /\ w.table = table /\ w.persistent = service[o].persistent
        /\ table[t] = 0 /\ \A u \in Tid : u # t => table[u] = service[o].table[u]
    <2>1. service[o].table \in [Tid -> Nat]
      BY <1>3 DEF Service
    <2> QED
      BY <1>3, <2>1 DEF Service
  <1>6. service' = IF gone THEN [service EXCEPT ![o] = w] ELSE service
    BY <1>0, <1>1, <1>3 DEF Service
  <1> HIDE DEF w, table
  <1>7. /\ service' \in Seq(Service) /\ Len(service') = Len(service)
        /\ service'[o] = IF gone THEN w ELSE service[o]
        /\ \A a \in Object : a # o => service'[a] = service[a]
    <2>1. CASE gone
      BY <1>3, <1>5, <1>6, <2>1, ServiceStep
    <2>2. CASE ~gone
      BY <1>6, <2>2, Rest
    <2> QED
      BY <2>1, <2>2
  <1> HIDE DEF gone, j
  <1>8. /\ \A a \in Object : service'[a].persistent = service[a].persistent
        /\ \A a \in Object, u \in Tid : service'[a].table[u] # 0
              => service'[a].table[u] = service[a].table[u] /\ ~(gone /\ a = o /\ u = t)
    <2>1. service'[o].persistent = service[o].persistent
      BY <1>5, <1>7
    <2>2. \A u \in Tid : service'[o].table[u] # 0
              => service'[o].table[u] = service[o].table[u] /\ ~(gone /\ u = t)
      BY <1>5, <1>7
    <2> QED
      BY <1>7, <2>1, <2>2
  <1>9. \A k \in Sid : SessionOK(session'[k]) /\ (k # i /\ ~(k = j /\ gone) => session'[k] = session[k])
    <2> SUFFICES ASSUME NEW k \in Sid
                 PROVE  SessionOK(session'[k]) /\ (k # i /\ ~(k = j /\ gone) => session'[k] = session[k])
      OBVIOUS
    <2>1. SessionOK(Dropped(k, Conn \ {c}))
      BY DroppedOK
    <2>2. SessionOK([session[k] EXCEPT !.child = FALSE]) /\ SessionOK(session[k])
      BY <1>0, MarkedOK
    <2>3. session'[k] = IF k = j /\ gone THEN Dropped(k, Conn \ {c})
                        ELSE IF k = i THEN [session[k] EXCEPT !.child = FALSE]
                        ELSE session[k]
      BY <1>1
    <2> QED
      BY <2>1, <2>2, <2>3, Zenon
  <1>10. session' \in Seq(Session) /\ Len(session') = Len(session)
    <2>1. session' \in [Sid -> Session]
      BY <1>1, <1>9 DEF SessionOK
    <2> QED
      BY <1>0, <2>1, SeqOfFunction DEF Sid
  <1>11. /\ ThreadFits(th)
         /\ \A a, u, k : Cleans(c, a, u, k) /\ u # t
               => th.svc = a /\ u \in th.closed /\ (th.pc = "cleanup" => th.clone[u] = k)
    <2>1. CASE thread[c].closed = {t}
      <3>1. th = [NoThread EXCEPT !.pc = "top"]
        BY <2>1
      <3>2. /\ th \in Thread /\ th.pc = "top" /\ th.svc = 0 /\ th.list = {}
            /\ th.closed = {} /\ th.clone = Empty
        BY <3>1, NoThreadOK DEF NoThread, Thread, Labels
      <3> HIDE DEF th
      <3>3. ThreadFits(th)
        BY <1>0, <3>2 DEF ThreadFits, Empty
      <3> QED
        BY <2>1, <3>3 DEF Cleans
    <2>2. CASE thread[c].closed # {t}
      <3> DEFINE closed == thread[c].closed \ {t}
      <3>1. th = [thread[c] EXCEPT !.closed = closed]
        BY <2>2
      <3>2. closed \in SUBSET Tid
        BY <1>0 DEF Thread
      <3> HIDE DEF closed
      <3>3. /\ th \in Thread /\ th.pc = thread[c].pc /\ th.svc = thread[c].svc
            /\ th.list = thread[c].list /\ th.closed = closed /\ th.clone = thread[c].clone
        BY <1>0, <3>1, <3>2 DEF Thread
      <3> HIDE DEF th
      <3>4. ThreadFits(thread[c]) /\ thread[c].pc = "cleanup"
        BY <1>1, Fits
      <3>5. ThreadFits(th)
        BY <3>3, <3>4 DEF ThreadFits
      <3>6. \A u \in thread[c].closed : u # t => u \in closed
        BY DEF closed
      <3> QED
        BY <1>1, <3>3, <3>5, <3>6 DEF Cleans
    <2> QED
      BY <2>1, <2>2
  <1> HIDE DEF th
  <1>12. /\ thread' \in [Conn -> Thread] /\ thread'[c] = th
         /\ \A d \in Conn : d # c => thread'[d] = thread[d]
    BY <1>0, <1>2, <1>11 DEF ThreadFits
  <1>13. \A d \in Conn : ThreadFits(thread[d])'
    <2>1. Sid' = Sid
      BY <1>10 DEF Sid
    <2>2. \A d \in Conn : ThreadFits(thread'[d])
      BY <1>11, <1>12, Fits
    <2>3. registry # 0 => service'[registry].persistent = service[registry].persistent
      BY <1>0, <1>8 DEF Object
    <2> QED
      BY <1>1, <1>7, <1>10, <2>1, <2>2, <2>3 DEF ThreadFits
  <1>14. Unique'
    BY <1>7, <1>8 DEF Unique, Object, TerminalIInv
  <1>15. EndsTracked'
    <2> SUFFICES ASSUME NEW a \in Object, NEW u \in Tid, NEW k, k = service'[a].table[u],
                        k # 0, k \notin misled', session'[k].shell # "stopped"
                 PROVE  /\ session'[k].child
                        /\ session'[k].told => \E d \in Conn : Cleans(d, a, u, k)'
      BY <1>7 DEF EndsTracked, Object
    <2>1. k = service[a].table[u] /\ ~(gone /\ a = o /\ u = t)
      BY <1>8
    <2>2. k \in Sid /\ k \notin misled
      BY <1>0, <1>1, <2>1 DEF Sid
    <2>3. ~(k = j /\ gone)
      BY <1>3, <2>1 DEF Unique, TerminalIInv, j
    <2>4. k # i
      BY <1>1, <2>3
    <2>5. session'[k] = session[k]
      BY <1>9, <2>2, <2>3, <2>4
    <2>6. /\ session[k].child
          /\ session[k].told => \E d \in Conn : Cleans(d, a, u, k)
      BY <2>1, <2>2, <2>5 DEF EndsTracked, TerminalIInv
    <2>7. \A d \in Conn : Cleans(d, a, u, k) => Cleans(d, a, u, k)'
      <3>1. ASSUME Cleans(c, a, u, k) PROVE Cleans(c, a, u, k)'
        <4>1. u # t
          BY <1>1, <2>4, <3>1 DEF Cleans
        <4>2. th.svc = a /\ u \in th.closed /\ (th.pc = "cleanup" => th.clone[u] = k)
          BY <1>11, <3>1, <4>1
        <4> QED
          BY <1>12, <4>2 DEF Cleans
      <3> QED
        BY <1>12, <3>1 DEF Cleans
    <2> QED
      BY <2>5, <2>6, <2>7
  <1>16. misled' \subseteq 1..Len(session')
    BY <1>1, <1>4, <1>10, Rest DEF Sid
  <1>17. \A d \in Conn : conn'[d] = "new" => thread'[d] = NoThread
    <2>1. conn[c] # "new"
      BY <1>1, Running
    <2> QED
      BY <1>1, <1>12, <2>1, Rest
  <1>18. /\ registry' \in Nat /\ registry' <= Len(service')
         /\ conn' \in [Conn -> {"new", "open", "closed"}]
         /\ janitor' \in [pc : {"look", "remove"}, fresh : BOOLEAN]
    BY <1>0, <1>1, <1>7, Rest
  <1>19. \A a \in 1..Len(service'), u \in Tid : service'[a].table[u] <= Len(session')
    BY <1>0, <1>7, <1>8, <1>10 DEF Object
  <1>20. janitor'.pc = "remove" /\ janitor'.fresh /\ registry' # 0
            => (service'[registry'].persistent => service'[registry'].table = Empty)
    <2> SUFFICES ASSUME janitor.pc = "remove", janitor.fresh, registry # 0,
                        service'[registry].persistent
                 PROVE  service'[registry].table = Empty
      BY <1>1
    <2>1. registry \in Object
      BY <1>0 DEF Object
    <2>2. service[registry].table = Empty
      BY <1>8, <2>1 DEF TerminalIInv, RemovalsJustified
    <2>3. service'[registry].table \in [Tid -> Nat]
      <3>1. service'[registry] \in Service
        BY <1>7, <2>1 DEF Object
      <3> QED
        BY <3>1 DEF Service
    <2>4. \A u \in Tid : service'[registry].table[u] = 0
      BY <1>8, <2>1, <2>2 DEF Empty
    <2> QED
      BY <2>3, <2>4 DEF Empty
  <1>21. \A k \in 1..Len(session') : SessionOK(session'[k])
    BY <1>9, <1>10 DEF Sid
  <1> QED
    BY <1>7, <1>10, <1>12, <1>13, <1>14, <1>15, <1>16, <1>17, <1>18, <1>19, <1>20, <1>21, Assemble

-----------------------------------------------------------------------------
LEMMA InitOK == TerminalInit => TerminalIInv
  <1> SUFFICES ASSUME TerminalInit PROVE TerminalIInv
    OBVIOUS
  <1>1. /\ registry = 0 /\ service = <<>> /\ session = <<>> /\ misled = {}
        /\ conn = [c \in Conn |-> "new"] /\ thread = [c \in Conn |-> NoThread]
        /\ janitor = [pc |-> "look", fresh |-> TRUE]
    BY DEF TerminalInit
  <1>2. Object = {} /\ Sid = {} /\ Len(service) = 0 /\ Len(session) = 0
    BY <1>1 DEF Object, Sid
  <1>3. /\ NoThread.pc = "none" /\ NoThread.svc = 0 /\ NoThread.list = {}
        /\ NoThread.closed = {} /\ NoThread.clone = Empty
    BY DEF NoThread
  <1>4. TerminalTypeOK
    <2>1. service \in Seq(Service) /\ session \in Seq(Session)
      BY <1>1
    <2>2. \A c \in Conn : /\ thread[c].svc <= Len(service)
                          /\ \A p \in thread[c].list : p[2] \in Sid
                          /\ \A t \in Tid : thread[c].clone[t] <= Len(session)
      BY <1>1, <1>2, <1>3 DEF Empty
    <2>3. thread \in [Conn -> Thread]
      BY <1>1, NoThreadOK
    <2>4. conn \in [Conn -> {"new", "open", "closed"}]
      BY <1>1
    <2>5. janitor \in [pc : {"look", "remove"}, fresh : BOOLEAN]
      BY <1>1
    <2>6. registry \in 0..Len(service)
      BY <1>1, <1>2
    <2> QED
      BY <1>1, <1>2, <2>1, <2>2, <2>3, <2>4, <2>5, <2>6 DEF TerminalTypeOK
  <1>5. Unique /\ EndsTracked /\ \A i \in Sid : Continuous(session[i]) /\ ~session[i].gap
    BY <1>2 DEF Unique, EndsTracked
  <1>6. ThreadsOK
    BY <1>1, <1>3 DEF ThreadsOK
  <1>7. RemovalsJustified
    BY <1>1 DEF RemovalsJustified
  <1> QED
    BY <1>4, <1>5, <1>6, <1>7 DEF TerminalIInv

LEMMA StepOK == TerminalIInv /\ [Next]_vars => TerminalIInv'
  <1> SUFFICES ASSUME TerminalIInv, [Next]_vars PROVE TerminalIInv'
    OBVIOUS
  <1>1. CASE UNCHANGED vars \/ Terminated
    BY <1>1, QuietKeeps DEF Terminated
  <1>2. CASE JanitorPick
    BY <1>2, QuietKeeps
  <1>3. CASE JanitorRemove
    BY <1>3, JanitorRemoveKeeps
  <1>4. ASSUME NEW i \in Sid, Output(i) \/ ShellExit(i) PROVE TerminalIInv'
    BY <1>4, ShellKeeps
  <1>5. ASSUME NEW c \in Conn, NEW b \in BOOLEAN, InitTerminalService(c, b) \/ SetPersistent(c, b)
        PROVE  TerminalIInv'
    BY <1>5, InitKeeps, SetPersistentKeeps
  <1>6. ASSUME NEW c \in Conn, NEW t \in Tid, OpenExisting(c, t) \/ OpenNew(c, t) \/ CloseTerminal(c, t)
        PROVE  TerminalIInv'
    BY <1>6, OpenExistingKeeps, OpenNewKeeps, CloseKeeps
  <1>7. ASSUME NEW c \in Conn, Disconnect(c) PROVE TerminalIInv'
    BY <1>7, QuietKeeps
  <1>8. ASSUME NEW c \in Conn, Step(c) PROVE TerminalIInv'
    <2>1. CASE Outer(c) \/ Top(c) \/ Clone(c) \/ Remove(c)
      BY <2>1, OuterKeeps, TopKeeps, CloneKeeps, RemoveKeeps
    <2>2. CASE \E t \in Tid : CleanupClosed(c, t)
      BY <2>2, CleanupKeeps
    <2>3. CASE \E p \in thread[c].list : Each(c, p)
      BY <2>3, EachKeeps
    <2> QED
      BY <1>8, <2>1, <2>2, <2>3 DEF Step
  <1>9. ASSUME NEW c \in Conn, NEW p \in thread[c].list, Skip(c, p) PROVE TerminalIInv'
    BY <1>9, SkipKeeps
  <1> QED
    BY <1>1, <1>2, <1>3, <1>4, <1>5, <1>6, <1>7, <1>8, <1>9 DEF Next

LEMMA TerminalInductive == TerminalSpec => []TerminalIInv
  <1> QED
    BY InitOK, StepOK, PTL DEF TerminalSpec

(* Every session has one name, whatever remaps, reconnections and removals *)
(* there are, and its end is noticed under it: read_outputs, handle_open,  *)
(* get_or_create_service and remove_service.                               *)
THEOREM TerminalInvariant == TerminalSpec => []TerminalInv
  <1>1. TerminalIInv => TerminalInv
    <2> SUFFICES ASSUME TerminalIInv PROVE OneName /\ DeadNoticed
      BY DEF TerminalIInv, TerminalInv
    <2>1. OneName
      <3> SUFFICES ASSUME NEW i \in Sid
                   PROVE  Cardinality({ot \in Object \X Tid : service[ot[1]].table[ot[2]] = i}) <= 1
        BY DEF OneName
      <3> DEFINE S == {ot \in Object \X Tid : service[ot[1]].table[ot[2]] = i}
      <3>1. i # 0
        BY TypeFacts DEF Sid
      <3>2. \A x, y \in S : x = y
        <4> SUFFICES ASSUME NEW x \in S, NEW y \in S PROVE x = y
          OBVIOUS
        <4>1. /\ x[1] \in Object /\ x[2] \in Tid /\ y[1] \in Object /\ y[2] \in Tid
              /\ x = <<x[1], x[2]>> /\ y = <<y[1], y[2]>>
              /\ service[x[1]].table[x[2]] = i /\ service[y[1]].table[y[2]] = i
          OBVIOUS
        <4>2. x[1] = y[1] /\ x[2] = y[2]
          BY <3>1, <4>1 DEF Unique, TerminalIInv
        <4> QED
          BY <4>1, <4>2
      <3> HIDE DEF S
      <3>3. CASE S = {}
        BY <3>3, FS_EmptySet DEF S
      <3>4. CASE S # {}
        <4>1. PICK x : S = {x}
          BY <3>2, <3>4
        <4>2. Cardinality({x}) = 1
          BY FS_Singleton
        <4> QED
          BY <4>1, <4>2 DEF S
      <3> QED
        BY <3>3, <3>4
    <2>2. DeadNoticed
      <3> SUFFICES ASSUME NEW o \in Object, NEW t \in Tid, NEW i, i = service[o].table[t], i # 0,
                          session[i].shell = "exited", i \notin misled
                   PROVE  IF session[i].told
                          THEN \E c \in Conn : thread[c].svc = o /\ t \in thread[c].closed
                          ELSE Ended(session[i])
        BY DEF DeadNoticed
      <3>1. /\ session[i].child
            /\ session[i].told => \E c \in Conn : Cleans(c, o, t, i)
        BY DEF EndsTracked, TerminalIInv
      <3> QED
        BY <3>1 DEF Cleans, Ended
    <2> QED
      BY <2>1, <2>2
  <1> QED
    BY <1>1, TerminalInductive, PTL

(* Nothing is missing or doubled in what a viewer is sent, across          *)
(* reconnection and replay: read_outputs and handle_open.                  *)
THEOREM OutputIsContinuous == TerminalSpec => []OutputContinuous
  <1>1. TerminalIInv => OutputContinuous
    BY DEF TerminalIInv, OutputContinuous
  <1> QED
    BY <1>1, TerminalInductive, PTL

(* A persistent service with sessions is removed only on a decision that   *)
(* something outdated: run and cleanup_inactive_services.                  *)
THEOREM PersistentServicesSurvive == TerminalSpec => PersistentSurvives
  <1>1. TerminalIInv /\ [Next]_vars =>
           (registry # 0 /\ registry' = 0 /\ service[registry].persistent
              /\ service[registry].table # Empty
            => ~janitor.fresh \/ \E c \in Conn : ~thread[c].fresh)
    <2> SUFFICES ASSUME TerminalIInv, [Next]_vars, registry # 0, registry' = 0,
                        service[registry].persistent, service[registry].table # Empty
                 PROVE  ~janitor.fresh \/ \E c \in Conn : ~thread[c].fresh
      OBVIOUS
    <2>1. JanitorRemove \/ \E c \in Conn : Remove(c)
      <3>1. registry' # registry /\ ~UNCHANGED vars
        BY DEF vars
      <3>2. ASSUME NEW c \in Conn, NEW b \in BOOLEAN PROVE ~InitTerminalService(c, b)
        BY <3>1 DEF InitTerminalService
      <3>3. ASSUME NEW c \in Conn PROVE Step(c) => Remove(c)
        BY <3>1 DEF Step, Outer, Top, Clone, CleanupClosed, Each
      <3>4. ASSUME NEW c \in Conn
            PROVE  /\ \A b \in BOOLEAN : ~SetPersistent(c, b)
                   /\ \A t \in Tid : ~OpenExisting(c, t) /\ ~OpenNew(c, t) /\ ~CloseTerminal(c, t)
                   /\ ~Disconnect(c) /\ \A p \in thread[c].list : ~Skip(c, p)
        BY <3>1 DEF SetPersistent, OpenExisting, OpenNew, CloseTerminal, Disconnect, Skip
      <3>5. ~JanitorPick /\ ~Terminated /\ \A i \in Sid : ~Output(i) /\ ~ShellExit(i)
        BY <3>1 DEF JanitorPick, Terminated, Output, ShellExit
      <3> QED
        BY <3>1, <3>2, <3>3, <3>4, <3>5 DEF Next
    <2>2. CASE JanitorRemove
      <3>1. janitor.pc = "remove"
        BY <2>2 DEF JanitorRemove
      <3> QED
        BY <3>1 DEF TerminalIInv, RemovalsJustified
    <2>3. CASE \E c \in Conn : Remove(c)
      <3>1. PICK c \in Conn : thread[c].pc = "remove"
        BY <2>3 DEF Remove
      <3> QED
        BY <3>1 DEF TerminalIInv, RemovalsJustified
    <2> QED
      BY <2>1, <2>2, <2>3
  <1> QED
    BY <1>1, TerminalInductive, PTL DEF TerminalSpec, PersistentSurvives
=============================================================================
