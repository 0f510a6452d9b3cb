--------------------------- MODULE ResamplerProofs ---------------------------
(***************************************************************************)
(* Theorems of SpeexResampler and ResamplerFront as parts of Components,   *)
(* for every set of ratios, every table of filters and calls of every      *)
(* size.  Both rest on what speex's loop makes of a call (Process): how    *)
(* many frames it takes and makes, and where in the input it stands after. *)
(***************************************************************************)
EXTENDS Components, FrameNumbers, FiniteSetTheorems, TLAPS

----------------------------------------------------------------------------
(* The speex resampler *)

\* Division with a rest, of naturals.
LEMMA DivRest ==
  ASSUME NEW n \in Nat, NEW d \in Nat, d > 0
  PROVE  n \div d \in Nat /\ n % d \in Nat /\ n % d < d
OBVIOUS

LEMMA ProductIsNat == ASSUME NEW m \in Nat, NEW n \in Nat PROVE m * n \in Nat
OBVIOUS

\* A multiple of an even number is even.
LEMMA MultipleIsEven ==
  ASSUME NEW a \in Nat, NEW m \in Int, a % 2 = 0 PROVE a * m \in Int /\ (a * m) % 2 = 0
<1>1. PICK h \in Nat : a = 2 * h
  OBVIOUS
<1>2. h * m \in Int /\ a * m = 2 * (h * m) /\ a * m \in Int
  BY <1>1
<1>3. \A x \in Int : (2 * x) % 2 = 0
  OBVIOUS
<1>4. QED
  BY ONLY <1>2, <1>3, Zenon

\* What a ratio, a filter length and a chunk's room are.
LEMMA SpeexConstants ==
  ASSUME ComponentsAssumption
  PROVE  /\ \A r \in Ratios : r[1] \in Nat /\ r[1] > 0 /\ r[2] \in Nat /\ r[2] > 0
         /\ Align \in Nat /\ Align > 0 /\ Align % 2 = 0
         /\ BufferSize \in Nat /\ BufferSize > 0 /\ MaxWord \in Nat /\ MaxIn \in Nat /\ MaxOut \in Nat
         /\ \A b \in BaseLengths : b \in Nat /\ b > 0 /\ b % 2 = 0
<1>1. Speex!SpeexAssumption
  BY DEF ComponentsAssumption
<1>2. \A b \in BaseLengths : b \in Nat /\ b > 0 /\ b % 2 = 0
  <2> TAKE b \in BaseLengths
  <2>1. b \in Nat /\ b > 0 /\ b % Align = 0 /\ Align \in Nat /\ Align > 0 /\ Align % 2 = 0
    BY <1>1 DEF Speex!SpeexAssumption
  <2>2. b \div Align \in Int /\ b = Align * (b \div Align)
    BY <2>1
  <2>3. QED
    BY <2>1, <2>2, MultipleIsEven
<1>3. QED
  BY <1>1, <1>2 DEF Speex!SpeexAssumption

\* A filter's length is positive and even.
LEMMA SpeexLength ==
  ASSUME ComponentsAssumption, NEW b \in BaseLengths, NEW r \in Ratios
  PROVE  /\ Speex!Length(b, r) \in Nat /\ Speex!Length(b, r) > 0
         /\ Speex!Length(b, r) % 2 = 0
<1>1. /\ r[1] \in Nat /\ r[1] > 0 /\ r[2] \in Nat /\ r[2] > 0 /\ b \in Nat /\ b > 0 /\ b % 2 = 0
      /\ Align \in Nat /\ Align > 0 /\ Align % 2 = 0
  BY SpeexConstants
<1>2. CASE ~(r[1] > r[2])
  BY <1>1, <1>2 DEF Speex!Length
<1>3. CASE r[1] > r[2]
  <2> DEFINE n == (b * r[1]) \div r[2]
             k == (n - 1) \div Align
  <2>1. b * r[1] \in Nat /\ b * r[1] >= r[2]
    BY <1>1, <1>3, ProductIsNat
  <2>2. n \in Nat /\ n >= 1
    BY <1>1, <2>1
  <2>3. k \in Nat
    BY <1>1, <2>2, DivRest
  <2>4. Speex!Length(b, r) = k * Align + Align
    BY <1>3 DEF Speex!Length
  <2> HIDE DEF n, k
  <2>5. k * Align \in Nat /\ k * Align = Align * k /\ k \in Int
    BY <1>1, <2>3, ProductIsNat
  <2>6. (Align * k) % 2 = 0
    BY ONLY <1>1, <2>5, MultipleIsEven, Zenon
  <2>7. QED
    BY <1>1, <2>4, <2>5, <2>6
<1>4. QED
  BY <1>2, <1>3

\* A call of the resampler takes and makes no more than there is, leaves the
\* position behind the input that was taken, and does something if it can.
LEMMA SpeexProcess ==
  ASSUME NEW num \in Nat, num > 0, NEW den \in Nat, den > 0, NEW last \in Nat, NEW frac \in Nat,
         frac < den, NEW in \in Nat, NEW out \in Nat
  PROVE  LET p == Speex!Process(num, den, last, frac, in, out) IN
         /\ p.consumed \in Nat /\ p.consumed <= in /\ p.produced \in Nat /\ p.produced <= out
         /\ p.last \in Nat /\ p.frac \in Nat /\ p.frac < den
         /\ in > 0 /\ out > 0 => p.consumed + p.produced > 0
<1> DEFINE need == (in - last) * den - frac
           produced == Speex!Outputs(num, den, last, frac, in, out)
           position == last * den + frac + produced * num
<1>1. produced \in Nat /\ produced <= out /\ (out > 0 /\ produced = 0 => last >= in)
  <2>1. CASE last >= in
    BY <2>1 DEF Speex!Outputs
  <2>2. CASE last < in
    <3>1. need \in Nat /\ need > 0
      <4>1. \A k \in Nat : k >= 1 => k * den >= den /\ k * den \in Nat
        OBVIOUS
      <4>2. in - last \in Nat /\ in - last >= 1
        BY <2>2
      <4>3. (in - last) * den >= den /\ (in - last) * den \in Nat
        BY <4>1, <4>2
      <4>4. QED
        BY <4>3
    <3> DEFINE up == (need + num - 1) \div num
    <3>2. up \in Nat /\ up > 0
      BY <3>1
    <3>3. produced = IF out < up THEN out ELSE up
      BY <2>2, <3>2 DEF Speex!Outputs, Speex!RoundUp, Speex!Least
    <3>4. QED
      BY <3>2, <3>3
  <2>3. QED
    BY <2>1, <2>2
<1>2. position \in Nat /\ position >= last * den
  <2>1. last * den \in Nat /\ produced * num \in Nat
    BY <1>1, ProductIsNat
  <2>2. QED
    BY <2>1
<1>3. position \div den \in Nat /\ position % den \in Nat /\ position % den < den
  BY <1>2, DivRest
<1>4. position \div den >= last
  BY <1>2
<1>5. Speex!Process(num, den, last, frac, in, out) =
        [consumed |-> Speex!Least(in, position \div den), produced |-> produced,
         last |-> position \div den - Speex!Least(in, position \div den), frac |-> position % den]
  BY DEF Speex!Process
<1> HIDE DEF position, produced
<1>6. QED
  BY <1>1, <1>3, <1>4, <1>5 DEF Speex!Least

\* What the invariant says of the state s of a channel, but for its fraction.
SpeexFits(s) ==
  /\ s \in Speex!States
  /\ s.filt > 0 /\ s.filt % 2 = 0
  /\ s.filt - 1 + 2 * s.magic < s.alloc /\ s.alloc - (s.filt - 1) >= BufferSize
  /\ ~s.started => s.magic = 0

LEMMA SpeexInvariant ==
  Speex!IInv <=> /\ SpeexFits(v1) /\ v2 \in Speex!Calls /\ v3 \in BOOLEAN
                 /\ ~v3 => v1.frac < v1.ratio[2]
                 /\ v3 => v2.pc = "idle"
BY DEF Speex!IInv, Speex!TypeOK, Speex!MemoryFits, Speex!Room, Speex!FractionInTable, Speex!Den,
       Speex!FilterFits, Speex!CallHasRatio, SpeexFits

\* A state that differs in position, fraction, magic samples or use.
LEMMA SpeexGoesOn ==
  ASSUME ComponentsAssumption, NEW s, SpeexFits(s), NEW l \in Nat, NEW f \in Nat,
         NEW m \in Nat, m <= s.magic, NEW b \in BOOLEAN, b \/ m = 0
  PROVE  SpeexFits([s EXCEPT !.last = l, !.frac = f, !.magic = m, !.started = b])
<1> DEFINE t == [s EXCEPT !.last = l, !.frac = f, !.magic = m, !.started = b]
<1>1. /\ t \in Speex!States /\ t.filt = s.filt /\ t.alloc = s.alloc /\ t.magic = m /\ t.started = b
      /\ s.filt \in Nat /\ s.alloc \in Nat /\ s.magic \in Nat
  BY DEF SpeexFits, Speex!States
<1> HIDE DEF t
<1>2. /\ t.filt > 0 /\ t.filt % 2 = 0
      /\ t.filt - 1 + 2 * t.magic < t.alloc /\ t.alloc - (t.filt - 1) >= BufferSize
  <2>1. /\ s.filt > 0 /\ s.filt % 2 = 0 /\ s.filt - 1 + 2 * s.magic < s.alloc
        /\ s.alloc - (s.filt - 1) >= BufferSize
    BY DEF SpeexFits
  <2>2. QED
    BY <1>1, <2>1, SpeexConstants
<1>3. ~t.started => t.magic = 0
  BY <1>1, Zenon
<1>4. SpeexFits(t)
  BY <1>1, <1>2, <1>3 DEF SpeexFits
<1>5. QED
  BY <1>4 DEF t

\* update_filter keeps what fits, and the middle of a filter that was used.
LEMMA SpeexUpdated ==
  ASSUME ComponentsAssumption, NEW s, SpeexFits(s), NEW len \in Nat, len > 0, len % 2 = 0,
         NEW ok \in BOOLEAN
  PROVE  LET u == Speex!Updated(s, len, ok) IN
         /\ SpeexFits(u) /\ u.ratio = s.ratio /\ u.base = s.base /\ u.frac = s.frac
         /\ s.started => Speex!Delay(u) = Speex!Delay(s)
<1> DEFINE a == Speex!Allocated(s, len)
           u == Speex!Updated(s, len, ok)
<1>1. BufferSize \in Nat /\ BufferSize > 0
  BY SpeexConstants
<1>2. /\ a \in Speex!States /\ a.alloc >= s.alloc /\ a.alloc - (len - 1) >= BufferSize
      /\ a.ratio = s.ratio /\ a.base = s.base /\ a.filt = s.filt /\ a.last = s.last
      /\ a.frac = s.frac /\ a.magic = s.magic /\ a.started = s.started
  BY <1>1 DEF Speex!Allocated, SpeexFits, Speex!States
<1>3. /\ a.filt \in Nat /\ a.alloc \in Nat /\ a.last \in Nat /\ a.magic \in Nat /\ a.filt > 0
      /\ a.filt % 2 = 0 /\ s.alloc \in Nat /\ a.filt - 1 + 2 * a.magic < s.alloc
      /\ ~a.started => a.magic = 0
  BY <1>2 DEF SpeexFits, Speex!States
<1> HIDE DEF a
<1>4. CASE ~ok
  BY <1>4 DEF Speex!Updated
<1>5. CASE ok /\ ~s.started
  <2>1. u = [a EXCEPT !.filt = len]
    BY <1>5 DEF Speex!Updated, a
  <2>2. /\ u \in Speex!States /\ u.filt = len /\ u.alloc = a.alloc /\ u.magic = a.magic
        /\ u.started = a.started /\ u.ratio = a.ratio /\ u.base = a.base /\ u.frac = a.frac
    BY <1>2, <2>1 DEF Speex!States
  <2> HIDE DEF u
  <2>3. u.filt - 1 + 2 * u.magic < u.alloc /\ u.alloc - (u.filt - 1) >= BufferSize
    BY <1>1, <1>2, <1>3, <1>5, <2>2
  <2>4. SpeexFits(u)
    BY <1>2, <1>3, <1>5, <2>2, <2>3 DEF SpeexFits
  <2>5. QED
    BY <1>2, <1>5, <2>2, <2>4 DEF u
<1>6. CASE ok /\ s.started /\ len > s.filt
  <2> DEFINE olen == a.filt + 2 * a.magic
  <2>1. u = Speex!Longer(a, len)
    BY <1>6, s.filt \in Nat DEF Speex!Updated, a, SpeexFits, Speex!States
  <2>2. olen \in Nat /\ olen % 2 = 0 /\ olen > 0 /\ olen - 1 < s.alloc
    BY <1>3
  <2>3. CASE len > olen
    <3>1. u = [a EXCEPT !.last = a.last + (len - olen) \div 2, !.magic = 0, !.filt = len]
      BY <2>1, <2>3 DEF Speex!Longer, Speex!Grown
    <3>2. /\ (len - olen) \div 2 \in Nat /\ 2 * ((len - olen) \div 2) = len - olen
          /\ len = 2 * (len \div 2) /\ olen = 2 * (olen \div 2)
          /\ a.filt = 2 * (a.filt \div 2)
      BY <2>2, <2>3, <1>3
    <3>3. a.last + (len - olen) \div 2 \in Nat /\ len \in Nat
      BY <1>3, <3>2
    <3>4. ASSUME NEW l \in Nat, NEW w, w = [a EXCEPT !.last = l, !.magic = 0, !.filt = len]
          PROVE  /\ w \in Speex!States /\ w.filt = len /\ w.alloc = a.alloc /\ w.last = l
                 /\ w.magic = 0 /\ w.started = a.started /\ w.ratio = a.ratio
                 /\ w.base = a.base /\ w.frac = a.frac
      BY <1>2, <3>4 DEF Speex!States
    <3> HIDE DEF u, olen
    <3>5. /\ u \in Speex!States /\ u.filt = len /\ u.alloc = a.alloc
          /\ u.last = a.last + (len - olen) \div 2
          /\ u.magic = 0 /\ u.started = a.started /\ u.ratio = a.ratio /\ u.base = a.base
          /\ u.frac = a.frac
      BY ONLY <3>1, <3>3, <3>4, Zenon
    <3> USE DEF olen
    <3>6. SpeexFits(u) /\ u.ratio = s.ratio /\ u.base = s.base /\ u.frac = s.frac
      BY <1>1, <1>2, <1>3, <1>6, <2>2, <2>3, <3>2, <3>5 DEF SpeexFits
    <3>7. Speex!Delay(u) = Speex!Delay(s)
      BY <1>2, <1>3, <2>2, <3>2, <3>5 DEF Speex!Delay
    <3>8. QED
      BY <3>6, <3>7 DEF u
  <2>4. CASE ~(len > olen)
    <3>1. u = [a EXCEPT !.magic = (olen - len) \div 2, !.filt = len]
      BY <2>1, <2>4 DEF Speex!Longer
    <3>2. /\ (olen - len) \div 2 \in Nat /\ 2 * ((olen - len) \div 2) = olen - len
          /\ len = 2 * (len \div 2) /\ olen = 2 * (olen \div 2)
          /\ a.filt = 2 * (a.filt \div 2)
      <4>1. olen - len \in Nat /\ (olen - len) % 2 = 0
        BY <2>2, <2>4
      <4>2. QED
        BY <1>3, <2>2, <4>1
    <3>3. /\ u \in Speex!States /\ u.filt = len /\ u.alloc = a.alloc /\ u.last = a.last
          /\ u.magic = (olen - len) \div 2 /\ u.started = a.started /\ u.ratio = a.ratio /\ u.base = a.base
          /\ u.frac = a.frac
      BY <1>2, <1>3, <3>1, <3>2 DEF Speex!States
    <3> HIDE DEF u
    <3>4. SpeexFits(u) /\ u.ratio = s.ratio /\ u.base = s.base /\ u.frac = s.frac
      BY <1>1, <1>2, <1>3, <1>6, <2>2, <2>4, <3>2, <3>3 DEF SpeexFits
    <3>5. Speex!Delay(u) = Speex!Delay(s)
      BY <1>2, <1>3, <2>2, <3>2, <3>3 DEF Speex!Delay
    <3>6. QED
      BY <3>4, <3>5 DEF u
  <2>5. QED
    BY <2>3, <2>4
<1>7. CASE ok /\ s.started /\ len < s.filt
  <2>1. u = [a EXCEPT !.magic = (a.filt - len) \div 2 + a.magic, !.filt = len]
    BY <1>2, <1>3, <1>7 DEF Speex!Updated, Speex!Shorter, Speex!Left, a
  <2>2. /\ (a.filt - len) \div 2 \in Nat /\ 2 * ((a.filt - len) \div 2) = a.filt - len
        /\ len = 2 * (len \div 2) /\ a.filt = 2 * (a.filt \div 2)
    BY <1>2, <1>3, <1>7
  <2>3. /\ u \in Speex!States /\ u.filt = len /\ u.alloc = a.alloc /\ u.last = a.last
        /\ u.magic = (a.filt - len) \div 2 + a.magic /\ u.started = a.started /\ u.ratio = a.ratio
        /\ u.base = a.base /\ u.frac = a.frac
    BY <1>2, <1>3, <2>1, <2>2, (a.filt - len) \div 2 + a.magic \in Nat DEF Speex!States
  <2> HIDE DEF u
  <2>4. SpeexFits(u) /\ u.ratio = s.ratio /\ u.base = s.base /\ u.frac = s.frac
    BY <1>1, <1>2, <1>3, <1>7, <2>2, <2>3 DEF SpeexFits
  <2>5. Speex!Delay(u) = Speex!Delay(s)
    BY <1>2, <1>3, <2>2, <2>3 DEF Speex!Delay
  <2>6. QED
    BY <2>4, <2>5 DEF u
<1>8. CASE ok /\ s.started /\ len = s.filt
  <2>1. u = a
    BY <1>8 DEF Speex!Updated, a, SpeexFits, Speex!States
  <2>2. SpeexFits(a)
    BY <1>1, <1>2, <1>3, <1>8 DEF SpeexFits
  <2>3. Speex!Delay(a) = Speex!Delay(s)
    BY <1>2 DEF Speex!Delay
  <2>4. QED
    BY <1>2, <2>1, <2>2, <2>3
<1>9. QED
  BY <1>4, <1>5, <1>6, <1>7, <1>8 DEF SpeexFits, Speex!States

LEMMA SpeexInit == ASSUME ComponentsAssumption, Speex!Init PROVE Speex!IInv
<1>1. PICK r \in Ratios, b \in BaseLengths :
        v1 = [ratio |-> r, base |-> b, filt |-> Speex!Length(b, r), started |-> FALSE,
              alloc |-> Speex!Length(b, r) - 1 + BufferSize, last |-> 0, frac |-> 0, magic |-> 0]
  BY DEF Speex!Init
<1>2. /\ Speex!Length(b, r) \in Nat /\ Speex!Length(b, r) > 0 /\ Speex!Length(b, r) % 2 = 0
      /\ r[2] > 0 /\ BufferSize \in Nat /\ BufferSize > 0 /\ MaxIn \in Nat /\ MaxOut \in Nat
  BY SpeexLength, SpeexConstants
<1>3. SpeexFits(v1) /\ v1.frac < v1.ratio[2]
  BY <1>1, <1>2 DEF SpeexFits, Speex!States
<1>4. v2 = [pc |-> "idle", in |-> 0, out |-> 0] /\ v3 = FALSE
  BY DEF Speex!Init
<1>5. v2 \in Speex!Calls
  BY <1>2, <1>4 DEF Speex!Calls
<1>6. QED
  BY <1>3, <1>4, <1>5, SpeexInvariant

\* A change of the ratio: the fraction becomes one of the new denominator, or the
\* change has failed.
LEMMA SpeexSetRate ==
  ASSUME ComponentsAssumption, Speex!IInv, Speex!SetRate
  PROVE  Speex!IInv' /\ Speex!DelayStays
<1>1. PICK r \in Ratios \ {v1.ratio}, ok \in BOOLEAN :
        IF Speex!MulDivFits(v1.frac, r[2], Speex!Den(v1))
        THEN /\ v1' = Speex!Updated([v1 EXCEPT !.ratio = r,
                        !.frac = Speex!Rescaled(@, r[2], Speex!Den(v1))], Speex!Length(v1.base, r), ok)
             /\ v3' = ~ok
        ELSE /\ v1' = [v1 EXCEPT !.ratio = r] /\ v3' = TRUE
  BY DEF Speex!SetRate
<1>2. SpeexFits(v1) /\ v1 \in Speex!States /\ v2 \in Speex!Calls /\ v2' = v2 /\ v2.pc = "idle"
  BY SpeexInvariant DEF Speex!SetRate, SpeexFits
<1>3. CASE ~Speex!MulDivFits(v1.frac, r[2], Speex!Den(v1))
  <2>1. v1' = [v1 EXCEPT !.ratio = r] /\ v3' = TRUE
    BY <1>1, <1>3
  <2>2. SpeexFits(v1') /\ Speex!Delay(v1') = Speex!Delay(v1)
    BY <1>2, <2>1 DEF SpeexFits, Speex!States, Speex!Delay
  <2>3. QED
    BY <1>2, <2>1, <2>2 DEF Speex!DelayStays, Speex!IInv, Speex!TypeOK, Speex!MemoryFits, Speex!Room,
       Speex!FractionInTable, Speex!Den, Speex!FilterFits, Speex!CallHasRatio, SpeexFits
<1>4. CASE Speex!MulDivFits(v1.frac, r[2], Speex!Den(v1))
  <2> DEFINE f == Speex!Rescaled(v1.frac, r[2], v1.ratio[2])
             s == [v1 EXCEPT !.ratio = r, !.frac = f]
             len == Speex!Length(v1.base, r)
  <2>1. v1' = Speex!Updated(s, len, ok) /\ v3' = ~ok
    BY <1>1, <1>4 DEF Speex!Den
  <2>2. /\ v1.ratio[2] \in Nat /\ v1.ratio[2] > 0 /\ v1.frac \in Nat /\ r[2] \in Nat /\ r[2] > 0
    BY <1>2, SpeexConstants DEF Speex!States
  <2>3. f \in Nat /\ f < r[2]
    <3>1. v1.frac * r[2] \in Nat
      BY <2>2, ProductIsNat
    <3>2. (v1.frac * r[2]) \div v1.ratio[2] \in Nat
      BY <2>2, <3>1, DivRest
    <3>3. QED
      BY <2>2, <3>2 DEF Speex!Rescaled, Speex!Least
  <2>4. SpeexFits(s) /\ s.ratio = r /\ s.frac = f /\ Speex!Delay(s) = Speex!Delay(v1)
        /\ s.started = v1.started
    BY <1>2, <2>3 DEF SpeexFits, Speex!States, Speex!Delay
  <2>5. len \in Nat /\ len > 0 /\ len % 2 = 0
    BY <1>2, SpeexLength DEF Speex!States
  <2> HIDE DEF f, s, len
  <2>6. /\ SpeexFits(v1') /\ v1'.ratio = r /\ v1'.frac = f
        /\ v1.started => Speex!Delay(v1') = Speex!Delay(v1)
    BY <2>1, <2>4, <2>5, SpeexUpdated
  <2>7. QED
    BY <1>2, <2>1, <2>3, <2>6 DEF Speex!DelayStays, Speex!IInv, Speex!TypeOK, Speex!MemoryFits,
       Speex!Room, Speex!FractionInTable, Speex!Den, Speex!FilterFits, Speex!CallHasRatio, SpeexFits
<1>5. QED
  BY <1>3, <1>4

\* A change of the quality.
LEMMA SpeexSetQuality ==
  ASSUME ComponentsAssumption, Speex!IInv, Speex!SetQuality
  PROVE  Speex!IInv' /\ Speex!DelayStays
<1>1. PICK b \in BaseLengths \ {v1.base}, ok \in BOOLEAN :
        /\ v1' = Speex!Updated([v1 EXCEPT !.base = b], Speex!Length(b, v1.ratio), ok)
        /\ v3' = (v3 \/ ~ok)
  BY DEF Speex!SetQuality
<1>2. SpeexFits(v1) /\ v1 \in Speex!States /\ v2 \in Speex!Calls /\ v2' = v2 /\ v2.pc = "idle"
      /\ v3 \in BOOLEAN /\ (~v3 => v1.frac < v1.ratio[2])
  BY SpeexInvariant DEF Speex!SetQuality, SpeexFits
<1> DEFINE s == [v1 EXCEPT !.base = b]
           len == Speex!Length(b, v1.ratio)
<1>3. v1' = Speex!Updated(s, len, ok)
  BY <1>1
<1>4. /\ SpeexFits(s) /\ s.ratio = v1.ratio /\ s.frac = v1.frac
      /\ s.started = v1.started /\ Speex!Delay(s) = Speex!Delay(v1)
  <2>1. /\ s \in Speex!States /\ s.ratio = v1.ratio /\ s.frac = v1.frac /\ s.filt = v1.filt
        /\ s.magic = v1.magic /\ s.alloc = v1.alloc /\ s.started = v1.started /\ s.last = v1.last
    BY <1>2 DEF Speex!States
  <2> HIDE DEF s
  <2>2. QED
    BY <1>2, <2>1 DEF SpeexFits, Speex!Delay
<1>5. len \in Nat /\ len > 0 /\ len % 2 = 0
  BY <1>2, SpeexLength DEF Speex!States
<1> HIDE DEF s, len
<1>6. /\ SpeexFits(v1') /\ v1'.ratio = v1.ratio /\ v1'.frac = v1.frac
      /\ v1.started => Speex!Delay(v1') = Speex!Delay(v1)
  BY <1>3, <1>4, <1>5, SpeexUpdated
<1>7. v3' \in BOOLEAN /\ (~v3' => ~v3)
  BY <1>1, Zenon
<1>8. QED
  BY <1>2, <1>6, <1>7 DEF Speex!DelayStays, Speex!IInv, Speex!TypeOK, Speex!MemoryFits,
     Speex!Room, Speex!FractionInTable, Speex!Den, Speex!FilterFits, Speex!CallHasRatio, SpeexFits

\* The calls that only move the position.
LEMMA SpeexSkipAndReset ==
  ASSUME ComponentsAssumption, Speex!IInv, Speex!SkipZeros \/ Speex!ResetMem
  PROVE  Speex!IInv' /\ UNCHANGED <<v2, v3>> /\ v1'.ratio = v1.ratio /\ v1'.base = v1.base
<1>1. SpeexFits(v1) /\ v1 \in Speex!States /\ v2 \in Speex!Calls /\ v3 \in BOOLEAN
      /\ (~v3 => v1.frac < v1.ratio[2]) /\ (v3 => v2.pc = "idle")
  BY SpeexInvariant DEF SpeexFits
<1>2. /\ v1.filt \in Nat /\ v1.filt \div 2 \in Nat /\ v1.magic \in Nat /\ v1.frac \in Nat
      /\ v1.ratio[2] > 0
  BY <1>1, SpeexConstants DEF Speex!States
<1>3. /\ UNCHANGED <<v2, v3>> /\ SpeexFits(v1') /\ v1'.ratio = v1.ratio /\ v1'.base = v1.base
      /\ v1'.frac \in {v1.frac, 0}
  <2>1. CASE Speex!SkipZeros
    <3>1. v1' = [v1 EXCEPT !.last = v1.filt \div 2] /\ UNCHANGED <<v2, v3>>
      BY <2>1 DEF Speex!SkipZeros
    <3>2. QED
      BY <1>1, <1>2, <3>1 DEF SpeexFits, Speex!States
  <2>2. CASE Speex!ResetMem
    <3>1. v1' = [v1 EXCEPT !.last = 0, !.magic = 0, !.frac = 0] /\ UNCHANGED <<v2, v3>>
      BY <2>2 DEF Speex!ResetMem
    <3>2. /\ v1' \in Speex!States /\ v1'.ratio = v1.ratio /\ v1'.base = v1.base
          /\ v1'.filt = v1.filt /\ v1'.alloc = v1.alloc /\ v1'.magic = 0 /\ v1'.frac = 0
      BY <1>1, <3>1 DEF Speex!States
    <3>3. /\ v1.filt > 0 /\ v1.filt % 2 = 0 /\ v1.filt - 1 + 2 * v1.magic < v1.alloc
          /\ v1.alloc - (v1.filt - 1) >= BufferSize /\ v1.alloc \in Nat
      BY <1>1 DEF SpeexFits, Speex!States
    <3>4. v1'.filt - 1 + 2 * v1'.magic < v1'.alloc
      BY <1>2, <3>2, <3>3
    <3>5. SpeexFits(v1')
      BY <3>2, <3>3, <3>4 DEF SpeexFits
    <3>6. QED
      BY <3>1, <3>2, <3>5
  <2>3. QED
    BY <2>1, <2>2
<1>4. ~v3' => v1'.frac < v1'.ratio[2]
  BY <1>1, <1>2, <1>3
<1>5. Speex!IInv'
  BY <1>1, <1>3, <1>4 DEF Speex!IInv, Speex!TypeOK, Speex!MemoryFits, Speex!Room,
     Speex!FractionInTable, Speex!Den, Speex!FilterFits, Speex!CallHasRatio, SpeexFits
<1>6. QED
  BY <1>3, <1>5

\* A call begins or ends.
LEMMA SpeexCall ==
  ASSUME ComponentsAssumption, Speex!IInv, Speex!Call \/ Speex!Return
  PROVE  Speex!IInv' /\ UNCHANGED <<v1, v3>>
<1>1. v2' \in Speex!Calls /\ UNCHANGED <<v1, v3>> /\ (v3 => v2'.pc = "idle")
  BY SpeexInvariant, SpeexConstants DEF Speex!Call, Speex!Return, Speex!Calls
<1>2. QED
  BY <1>1 DEF Speex!IInv, Speex!TypeOK, Speex!MemoryFits, Speex!Room,
     Speex!FractionInTable, Speex!Den, Speex!FilterFits, Speex!CallHasRatio

\* What a call, of the magic samples or of a chunk, does to state and call.
LEMMA SpeexMoves ==
  ASSUME ComponentsAssumption, Speex!IInv, v2.pc # "idle", NEW in \in Nat,
         NEW p, p = Speex!Process(v1.ratio[1], v1.ratio[2], v1.last, v1.frac, in, v2.out),
         NEW m \in Nat, m <= v1.magic,
         v1' = [v1 EXCEPT !.last = p.last, !.frac = p.frac, !.magic = m, !.started = TRUE],
         UNCHANGED v3
  PROVE  /\ SpeexFits(v1') /\ v1'.ratio = v1.ratio /\ v1'.base = v1.base /\ v1'.magic = m
         /\ v1'.frac < v1'.ratio[2] /\ v3' = FALSE
         /\ p.consumed \in 0..in /\ p.produced \in 0..v2.out
         /\ in > 0 /\ v2.out > 0 => p.consumed + p.produced > 0
<1>1. SpeexFits(v1) /\ v1 \in Speex!States /\ v2 \in Speex!Calls /\ v3 = FALSE /\ v1.frac < v1.ratio[2]
  BY SpeexInvariant DEF SpeexFits
<1>2. /\ v1.ratio[1] \in Nat /\ v1.ratio[1] > 0 /\ v1.ratio[2] \in Nat /\ v1.ratio[2] > 0
      /\ v1.last \in Nat /\ v1.frac \in Nat /\ v2.out \in Nat
  BY <1>1, SpeexConstants DEF Speex!States, Speex!Calls
<1>3. /\ p.consumed \in Nat /\ p.consumed <= in /\ p.produced \in Nat /\ p.produced <= v2.out
      /\ p.last \in Nat /\ p.frac \in Nat /\ p.frac < v1.ratio[2]
      /\ in > 0 /\ v2.out > 0 => p.consumed + p.produced > 0
  BY <1>1, <1>2, SpeexProcess
<1>4. SpeexFits(v1')
  BY <1>1, <1>3, SpeexGoesOn
<1>5. v1'.ratio = v1.ratio /\ v1'.base = v1.base /\ v1'.magic = m /\ v1'.frac = p.frac
  BY <1>1 DEF Speex!States
<1>6. QED
  BY <1>1, <1>2, <1>3, <1>4, <1>5

LEMMA SpeexWorks ==
  ASSUME ComponentsAssumption, Speex!IInv, Speex!Magic \/ Speex!Chunk
  PROVE  /\ Speex!IInv' /\ v1'.ratio = v1.ratio /\ v1'.base = v1.base
         /\ Speex!Chunk => v2'.in + v2'.out < v2.in + v2.out
<1>1. SpeexFits(v1) /\ v1 \in Speex!States /\ v2 \in Speex!Calls
  BY SpeexInvariant DEF SpeexFits
<1>2. /\ v1.magic \in Nat /\ v2.in \in Nat /\ v2.in <= MaxIn /\ v2.out \in Nat /\ v2.out <= MaxOut
      /\ MaxIn \in Nat /\ MaxOut \in Nat
      /\ Speex!Room \in Nat /\ Speex!Room > 0
  BY <1>1, SpeexConstants DEF Speex!States, Speex!Calls, SpeexFits, Speex!Room
<1>3. CASE Speex!Magic
  <2> DEFINE p == Speex!Process(v1.ratio[1], v1.ratio[2], v1.last, v1.frac, v1.magic, v2.out)
  <2>1. /\ v2.pc = "magic"
        /\ v1' = [v1 EXCEPT !.last = p.last, !.frac = p.frac, !.magic = v1.magic - p.consumed,
                            !.started = TRUE]
        /\ v2' = [v2 EXCEPT !.pc = IF v1'.magic > 0 THEN "idle" ELSE "chunk",
                            !.out = v2.out - p.produced]
        /\ UNCHANGED v3
    BY <1>3 DEF Speex!Magic, Speex!Num, Speex!Den
  <2>2. /\ v1.ratio[1] \in Nat /\ v1.ratio[1] > 0 /\ v1.ratio[2] \in Nat /\ v1.ratio[2] > 0
        /\ v1.last \in Nat /\ v1.frac \in Nat /\ v1.frac < v1.ratio[2]
    BY <1>1, <2>1, SpeexConstants, SpeexInvariant DEF Speex!States
  <2>3. p.consumed \in Nat /\ p.consumed <= v1.magic
    BY <1>2, <2>2, SpeexProcess
  <2> HIDE DEF p
  <2>4. v1.magic - p.consumed \in Nat /\ v1.magic - p.consumed <= v1.magic
    BY <1>2, <2>3
  <2>5. /\ SpeexFits(v1') /\ v1'.ratio = v1.ratio /\ v1'.base = v1.base
        /\ v1'.frac < v1'.ratio[2] /\ v3' = FALSE /\ p.produced \in 0..v2.out
    BY <1>2, <2>1, <2>4, SpeexMoves DEF p
  <2>6. v2' \in Speex!Calls
    <3>1. v2.out - p.produced \in 0..MaxOut
      BY <1>2, <2>5
    <3>2. (IF v1'.magic > 0 THEN "idle" ELSE "chunk") \in {"idle", "magic", "chunk"}
      OBVIOUS
    <3>3. QED
      BY <1>1, <2>1, <3>1, <3>2 DEF Speex!Calls
  <2>7. Speex!IInv'
    BY <2>5, <2>6 DEF Speex!IInv, Speex!TypeOK, Speex!MemoryFits, Speex!Room,
       Speex!FractionInTable, Speex!Den, Speex!FilterFits, Speex!CallHasRatio, SpeexFits
  <2>8. ~Speex!Chunk
    BY <2>1 DEF Speex!Chunk
  <2>9. QED
    BY <2>5, <2>7, <2>8
<1>4. CASE Speex!Chunk
  <2> DEFINE in == Speex!Least(v2.in, Speex!Room)
             p == Speex!Process(v1.ratio[1], v1.ratio[2], v1.last, v1.frac, in, v2.out)
  <2>1. /\ v2.pc = "chunk" /\ v2.in > 0 /\ v2.out > 0
        /\ v1' = [v1 EXCEPT !.last = p.last, !.frac = p.frac, !.started = TRUE]
        /\ v2' = [v2 EXCEPT !.in = v2.in - p.consumed, !.out = v2.out - p.produced]
        /\ UNCHANGED v3
    BY <1>4 DEF Speex!Chunk, Speex!Num, Speex!Den
  <2>2. in \in Nat /\ in > 0 /\ in <= v2.in
    BY <1>2, <2>1 DEF Speex!Least
  <2> HIDE DEF in, p
  <2>3. v1' = [v1 EXCEPT !.last = p.last, !.frac = p.frac, !.magic = v1.magic, !.started = TRUE]
    BY <1>1, <2>1 DEF Speex!States
  <2>4. /\ SpeexFits(v1') /\ v1'.ratio = v1.ratio /\ v1'.base = v1.base
        /\ v1'.frac < v1'.ratio[2] /\ v3' = FALSE
        /\ p.consumed \in 0..in /\ p.produced \in 0..v2.out /\ p.consumed + p.produced > 0
    <3>1. v1.magic <= v1.magic /\ v2.pc # "idle"
      BY <1>2, <2>1
    <3>2. QED
      BY <1>2, <2>1, <2>2, <2>3, <3>1, SpeexMoves, ZenonT(60) DEF p
  <2>5. v2' \in Speex!Calls /\ v2'.in + v2'.out < v2.in + v2.out
    <3>1. /\ v2.in - p.consumed \in 0..MaxIn /\ v2.out - p.produced \in 0..MaxOut
          /\ (v2.in - p.consumed) + (v2.out - p.produced) < v2.in + v2.out
      BY <1>2, <2>2, <2>4
    <3>2. /\ v2' \in Speex!Calls /\ v2'.in = v2.in - p.consumed /\ v2'.out = v2.out - p.produced
      BY <1>1, <2>1, <3>1 DEF Speex!Calls
    <3>3. QED
      BY <3>1, <3>2
  <2>6. Speex!IInv'
    BY <2>4, <2>5 DEF Speex!IInv, Speex!TypeOK, Speex!MemoryFits, Speex!Room,
       Speex!FractionInTable, Speex!Den, Speex!FilterFits, Speex!CallHasRatio, SpeexFits
  <2>7. QED
    BY <2>4, <2>5, <2>6
<1>5. QED
  BY <1>3, <1>4

\* Every call keeps the invariant and the place in the input, and gets on.
LEMMA SpeexStep ==
  ASSUME ComponentsAssumption, Speex!IInv, Speex!Next
  PROVE  Speex!IInv' /\ Speex!DelayStays /\ Speex!ChunkAdvances
<1>1. CASE Speex!SetRate \/ Speex!SetQuality
  <2>1. Speex!IInv' /\ Speex!DelayStays
    BY <1>1, SpeexSetRate, SpeexSetQuality
  <2>2. ~Speex!Chunk
    BY <1>1 DEF Speex!SetRate, Speex!SetQuality, Speex!Chunk
  <2>3. QED
    BY <2>1, <2>2 DEF Speex!ChunkAdvances
<1>2. CASE Speex!SkipZeros \/ Speex!ResetMem
  <2>1. Speex!IInv' /\ v1'.ratio = v1.ratio /\ v1'.base = v1.base
    BY <1>2, SpeexSkipAndReset
  <2>2. ~Speex!Chunk
    BY <1>2 DEF Speex!SkipZeros, Speex!ResetMem, Speex!Chunk
  <2>3. QED
    BY <2>1, <2>2 DEF Speex!ChunkAdvances, Speex!DelayStays
<1>3. CASE Speex!Call \/ Speex!Return
  <2>1. Speex!IInv' /\ UNCHANGED <<v1, v3>>
    BY <1>3, SpeexCall
  <2>2. ~Speex!Chunk
    BY <1>3 DEF Speex!Call, Speex!Return, Speex!Chunk
  <2>3. QED
    BY <2>1, <2>2 DEF Speex!ChunkAdvances, Speex!DelayStays
<1>4. CASE Speex!Magic \/ Speex!Chunk
  BY <1>4, SpeexWorks DEF Speex!ChunkAdvances, Speex!DelayStays
<1>5. QED
  BY <1>1, <1>2, <1>3, <1>4 DEF Speex!Next, Speex!Working

LEMMA SpeexStutter ==
  ASSUME Speex!IInv, UNCHANGED <<v1, v2, v3>> PROVE Speex!IInv'
BY DEF Speex!IInv, Speex!TypeOK, Speex!MemoryFits, Speex!Room, Speex!FractionInTable, Speex!Den,
       Speex!FilterFits, Speex!CallHasRatio

----------------------------------------------------------------------------
(* The front end: what is consumed, produced and left *)

\* Division by what need not be a constant.
LEMMA Quotient ==
  ASSUME NEW n \in Nat, NEW d \in Nat, d > 0
  PROVE  /\ n \div d \in Nat /\ n % d \in Nat /\ n % d < d
         /\ (n \div d) * d \in Nat /\ n % d = n - (n \div d) * d
<1>1. n \div d \in Nat /\ n % d \in Nat /\ n % d < d
  OBVIOUS
<1>2. n % d = n - d * (n \div d)
  OBVIOUS
<1>3. \A x \in Nat, y \in Nat : x * y = y * x /\ x * y \in Nat
  OBVIOUS
<1>4. (n \div d) * d \in Nat /\ (n \div d) * d = d * (n \div d)
  BY <1>1, <1>3
<1>5. QED
  BY <1>1, <1>2, <1>4

LEMMA Monotone ==
  ASSUME NEW m \in Nat, NEW n \in Nat, m <= n, NEW k \in Nat
  PROVE  m * k \in Nat /\ n * k \in Nat /\ m * k <= n * k
OBVIOUS

LEMMA NextMultiple ==
  ASSUME NEW m \in Int, NEW k \in Int PROVE (m + 1) * k = m * k + k /\ (m - 1) * k = m * k - k
OBVIOUS

\* Factors can be compared by their products.
LEMMA LessFactor ==
  ASSUME NEW m \in Nat, NEW n \in Nat, NEW k \in Nat, m * k < n * k PROVE m < n
OBVIOUS

LEMMA SumTimes ==
  ASSUME NEW m \in Int, NEW n \in Int, NEW k \in Int
  PROVE  (m + n) * k = m * k + n * k /\ (m - n) * k = m * k - n * k
OBVIOUS

\* RoundUp is the least number of steps d that reaches n.
LEMMA RoundsUp ==
  ASSUME NEW n \in Nat, NEW d \in Nat, d > 0
  PROVE  LET u == Front!RoundUp(n, d) IN
         u \in Nat /\ u * d \in Nat /\ u * d >= n /\ u * d < n + d
<1> DEFINE u == (n + d - 1) \div d
<1>1. n + d - 1 \in Nat
  OBVIOUS
<1>2. u \in Nat /\ u * d \in Nat /\ (n + d - 1) % d < d /\ (n + d - 1) % d \in Nat
      /\ (n + d - 1) % d = n + d - 1 - u * d
  BY <1>1, Quotient
<1>3. Front!RoundUp(n, d) = u
  BY DEF Front!RoundUp
<1> DEFINE k == u * d
           r == (n + d - 1) % d
<1>4. k \in Nat /\ r \in Nat /\ r < d /\ r = n + d - 1 - k
  BY <1>2
<1> HIDE DEF u, k, r
<1>5. k >= n /\ k < n + d
  BY <1>4
<1>6. QED
  BY <1>2, <1>3, <1>4, <1>5 DEF k

\* What a call p of the resampler takes and makes of "have" frames, from the place
\* q: it stops because there is no more input, which ends at h, or because it made
\* as much as was wanted.
Works(p, num, den, q, h, have, wanted) ==
  /\ q \in Nat /\ h \in Nat /\ p.produced * num \in Nat
  /\ p.produced \in Nat /\ p.produced <= wanted
  /\ p.consumed \in Nat /\ p.consumed <= have
  /\ p.last \in Nat /\ p.frac \in Nat /\ p.frac < den
  /\ p.last * den + p.frac = q + p.produced * num - p.consumed * den
  /\ p.consumed * den \in Nat
  /\ p.consumed < have => p.last = 0
  /\ \/ q >= h /\ p.produced = 0
     \/ q < h /\ p.produced = wanted /\ q + p.produced * num < h + num
     \/ q < h /\ q + p.produced * num >= h /\ q + p.produced * num < h + num

LEMMA FrontProcess ==
  ASSUME NEW num \in Nat, num > 0, NEW den \in Nat, den > 0, NEW last \in Nat, NEW frac \in Nat,
         frac < den, NEW have \in Nat, NEW wanted \in Nat
  PROVE  Works(Front!Process(num, den, last, frac, have, wanted), num, den,
               last * den + frac, have * den, have, wanted)
<1> DEFINE place == last * den + frac
           produced == Front!Outputs(num, den, last, frac, have, wanted)
           after == place + produced * num
<1>1. place \in Nat /\ last * den \in Nat /\ have * den \in Nat
  BY ProductIsNat
<1>2. /\ produced \in Nat /\ produced <= wanted /\ produced * num \in Nat
      /\ \/ place >= have * den /\ produced = 0
         \/ place < have * den /\ produced = wanted /\ after < have * den + num
         \/ place < have * den /\ after >= have * den /\ after < have * den + num
  <2>1. CASE last >= have
    <3>1. have * den <= last * den
      BY <2>1, Monotone
    <3>2. produced = 0 /\ produced * num = 0
      BY <2>1 DEF Front!Outputs
    <3>3. place >= have * den
      BY <1>1, <3>1
    <3>4. QED
      BY <3>2, <3>3
  <2>2. CASE last < have
    <3> DEFINE need == (have - last) * den - frac
               up == Front!RoundUp(need, num)
               h == have * den
               l == last * den
    <3>1. need = h - l - frac /\ l + den <= h
      <4>1. (have - last) * den = h - l
        BY SumTimes
      <4>2. last + 1 \in Nat /\ last + 1 <= have
        BY <2>2
      <4>3. (last + 1) * den <= h
        BY <4>2, Monotone
      <4>4. (last + 1) * den = l + den
        BY NextMultiple
      <4>5. QED
        BY <4>1, <4>3, <4>4
    <3>2. h \in Nat /\ l \in Nat
      BY <1>1
    <3>3. produced = Front!Least(wanted, up)
      BY <2>2 DEF Front!Outputs
    <3> HIDE DEF h, l, need, up
    <3>4. need \in Nat /\ need > 0
      BY <3>1, <3>2
    <3>5. up \in Nat /\ up * num \in Nat /\ up * num >= need /\ up * num < need + num
      BY ONLY <3>4, RoundsUp, num \in Nat, num > 0 DEF up
    <3>6. produced = IF wanted < up THEN wanted ELSE up
      BY <3>3 DEF Front!Least
    <3> HIDE DEF produced
    <3>7. produced \in Nat /\ produced <= wanted /\ produced <= up
      BY <3>5, <3>6
    <3> DEFINE m == produced * num
               u == up * num
    <3>8. m \in Nat /\ m <= u
      BY <3>5, <3>7, Monotone
    <3>9. u \in Nat /\ u >= need /\ u < need + num
      BY <3>5
    <3>10. place = l + frac /\ after = l + frac + m
      BY DEF l
    <3> HIDE DEF m, u, place, after
    <3>11. place < h /\ after < h + num
      BY <3>1, <3>2, <3>8, <3>9, <3>10
    <3>12. produced = wanted \/ produced = up
      BY <3>6
    <3>13. ASSUME produced = up PROVE after >= h
      <4>1. m = u
        BY <3>13 DEF m, u
      <4>2. QED
        BY <3>1, <3>2, <3>8, <3>9, <3>10, <4>1
    <3>14. QED
      BY <3>7, <3>8, <3>11, <3>12, <3>13 DEF h, m
  <2>3. QED
    BY <2>1, <2>2
<1>3. after \in Nat
  BY <1>1, <1>2
<1> DEFINE whole == after \div den
           rest == after % den
           w == whole * den
           c == Front!Least(have, whole)
<1>4. whole \in Nat /\ rest \in Nat /\ rest < den /\ w \in Nat /\ rest = after - w
  <2> HIDE DEF after
  <2>1. QED
    BY <1>3, Quotient
<1>5. Front!Process(num, den, last, frac, have, wanted) =
        [consumed |-> c, produced |-> produced, last |-> whole - c, frac |-> rest]
  BY DEF Front!Process
<1> HIDE DEF produced, after, place, rest, w
<1>6. c \in Nat /\ c <= have /\ whole - c \in Nat /\ (c < have => whole - c = 0)
  <2> HIDE DEF whole
  <2>1. QED
    BY <1>4 DEF Front!Least
<1>7. (whole - c) * den = w - c * den /\ c * den \in Nat
  <2>1. (whole - c) * den = whole * den - c * den
    <3> HIDE DEF whole, c
    <3>1. QED
      BY <1>4, <1>6, SumTimes
  <2>2. c * den \in Nat
    BY <1>6, ProductIsNat
  <2>3. QED
    BY <2>1, <2>2 DEF w
<1> HIDE DEF whole, c
<1>8. (whole - c) * den + rest = after - c * den
  <2> DEFINE x == (whole - c) * den
             y == c * den
  <2>1. x = w - y /\ y \in Nat
    BY <1>7
  <2> HIDE DEF x, y
  <2>2. x + rest = after - y
    BY <1>3, <1>4, <2>1
  <2>3. QED
    BY <2>2 DEF x, y
<1> DEFINE p == Front!Process(num, den, last, frac, have, wanted)
           q == last * den + frac
           h == have * den
<1>9. p.consumed = c /\ p.produced = produced /\ p.last = whole - c /\ p.frac = rest
  BY <1>5
<1>10. after = q + produced * num /\ q = place
  BY DEF after, place
<1> HIDE DEF p
<1>11. /\ q \in Nat /\ after \in Nat /\ h \in Nat /\ p.produced * num \in Nat
       /\ p.produced \in Nat /\ p.produced <= wanted
       /\ p.consumed \in Nat /\ p.consumed <= have
       /\ p.last \in Nat /\ p.frac \in Nat /\ p.frac < den
       /\ p.consumed * den \in Nat
       /\ p.consumed < have => p.last = 0
  BY <1>1, <1>2, <1>3, <1>4, <1>6, <1>7, <1>9, <1>10
<1>12. p.last * den + p.frac = after - p.consumed * den
  BY <1>8, <1>9
<1>13. \/ q >= h /\ p.produced = 0
       \/ q < h /\ p.produced = wanted /\ after < h + num
       \/ q < h /\ after >= h /\ after < h + num
  BY <1>2, <1>9, <1>10 DEF after
<1>14. after = q + p.produced * num
  BY <1>9, <1>10
<1> HIDE DEF q, h
<1>15. Works(p, num, den, q, h, have, wanted)
  BY <1>11, <1>12, <1>13, <1>14 DEF Works
<1>16. QED
  BY <1>15 DEF p, q, h

\* What is left starts before the end of what is played: one step more than what
\* the frames that are left take would be within them.
LEMMA LeftStarts ==
  ASSUME NEW num \in Nat, num > 0, NEW den \in Nat, den > 0, NEW left \in Nat, left > 0,
         left * num < num + den, NEW q \in Nat, q < den
  PROVE  q + left * num < left * den + num
<1>1. left * num \in Nat /\ left * den \in Nat
  BY ProductIsNat
<1>2. CASE num <= den
  <2>1. left - 1 \in Nat
    OBVIOUS
  <2>2. num * (left - 1) <= den * (left - 1)
    BY <1>2, <2>1, Monotone
  <2>3. (left - 1) * num = left * num - num /\ (left - 1) * den = left * den - den
    BY NextMultiple
  <2>4. num * (left - 1) = (left - 1) * num /\ den * (left - 1) = (left - 1) * den
    OBVIOUS
  <2> DEFINE x == left * num
             y == left * den
  <2>5. x - num <= y - den /\ x \in Nat /\ y \in Nat
    BY <1>1, <2>2, <2>3, <2>4
  <2> HIDE DEF x, y
  <2>6. q + x < y + num
    BY <2>5
  <2>7. QED
    BY <2>6 DEF x, y
<1>3. CASE num > den
  <2>1. left < 2
    <3>1. left * num < 2 * num
      BY <1>1, <1>3
    <3>2. QED
      BY <3>1, LessFactor
  <2>2. left = 1
    BY <2>1
  <2>3. QED
    BY <2>2
<1>4. QED
  BY <1>2, <1>3

\* input_needed_for_output, of a ratio.
NeededFor(num, den, left, frames) ==
  IF frames <= left THEN 0 ELSE Front!RoundUp((frames - left) * num, den)

\* The call p of the resampler made all the frames, of those it had, and what is
\* left is not too much.
Filled(p, num, den, had, frames) ==
  LET rest == had - p.consumed IN
  /\ had > 0 /\ p.produced = frames /\ p.consumed \in Nat /\ rest \in Nat
  /\ p.last \in Nat /\ p.frac \in Nat /\ p.frac < den
  /\ rest * num < num + den
  /\ p.last * den + p.frac + rest * num < rest * den + num

\* Of as many frames as input_needed_for_output says, the output is filled, and
\* what is left is not more than before.
LEMMA PlaysAll ==
  ASSUME NEW num \in Nat, num > 0, NEW den \in Nat, den > 0, NEW last \in Nat, NEW frac \in Nat,
         frac < den, NEW left \in Nat, NEW frames \in Nat, frames > 0, NEW n \in Nat,
         left * num < num + den, last * den + frac + left * num < left * den + num,
         n = NeededFor(num, den, left, frames)
  PROVE  Filled(Front!Process(num, den, last, frac, left + n, frames), num, den, left + n, frames)
<1> DEFINE p == Front!Process(num, den, last, frac, left + n, frames)
           rest == (left + n) - p.consumed
           q == last * den + frac
           A == left * num
           B == left * den
           C == n * den
           F == frames * num
           G == p.produced * num
           K == p.consumed * den
<1>1. /\ A \in Nat /\ B \in Nat /\ C \in Nat /\ F \in Nat /\ q \in Nat
  <2>1. last * den \in Nat
    BY ProductIsNat
  <2>2. QED
    BY <2>1, ProductIsNat
<1>2. (left + n) * den = B + C
  BY SumTimes
<1>3. /\ G \in Nat /\ p.produced \in Nat /\ p.produced <= frames
      /\ p.consumed \in Nat /\ p.consumed <= left + n
      /\ p.last \in Nat /\ p.frac \in Nat /\ p.frac < den
      /\ p.last * den + p.frac = q + G - K /\ K \in Nat
      /\ p.consumed < left + n => p.last = 0
      /\ \/ q >= B + C /\ p.produced = 0
         \/ q < B + C /\ p.produced = frames /\ q + G < B + C + num
         \/ q < B + C /\ q + G >= B + C /\ q + G < B + C + num
  <2> DEFINE have == left + n
             h == have * den
  <2>1. have \in Nat /\ h = B + C
    BY <1>2
  <2>2. Works(p, num, den, q, h, have, frames)
    BY <2>1, FrontProcess, Zenon
  <2> HIDE DEF p, q, h, have, B, C
  <2>3. QED
    BY ONLY <2>1, <2>2 DEF Works, have, G, K
<1> HIDE DEF p
<1>4. A < num + den /\ q + A < B + num
  OBVIOUS
<1>5. F >= num /\ (frames <= left => C = 0 /\ F <= A)
      /\ (frames > left => C >= F - A /\ C < F - A + den)
  <2>1. F >= num
    <3>1. 1 * num <= frames * num
      BY Monotone
    <3>2. QED
      BY <3>1
  <2>2. ASSUME frames <= left PROVE C = 0 /\ F <= A
    <3>1. n = 0
      BY <2>2 DEF NeededFor
    <3>2. F <= A
      BY <2>2, Monotone
    <3>3. QED
      BY <3>1, <3>2
  <2>3. ASSUME frames > left PROVE C >= F - A /\ C < F - A + den
    <3> DEFINE x == (frames - left) * num
    <3>1. x \in Nat /\ x = F - A
      <4>1. frames - left \in Nat
        BY <2>3
      <4>2. x \in Nat
        BY <4>1, ProductIsNat
      <4>3. x = F - A
        BY SumTimes
      <4>4. QED
        BY <4>2, <4>3
    <3>2. n = Front!RoundUp(x, den)
      BY <2>3 DEF NeededFor
    <3> HIDE DEF x
    <3>3. C >= x /\ C < x + den
      BY <3>1, <3>2, RoundsUp
    <3>4. QED
      BY <3>1, <3>3
  <2>4. QED
    BY <2>1, <2>2, <2>3
<1> DEFINE M == rest * num
           N == rest * den
<1>6. rest \in Nat /\ M \in Nat /\ N \in Nat /\ N = B + C - K
  <2>1. rest \in Nat
    <3> HIDE DEF p
    <3>1. QED
      BY <1>3
  <2>2. N = (left + n) * den - K
    <3> DEFINE have == left + n
               c == p.consumed
    <3>1. have \in Int /\ c \in Int
      BY <1>3
    <3>2. rest = have - c /\ K = c * den /\ (left + n) * den = have * den
      OBVIOUS
    <3> HIDE DEF have, c, rest, K
    <3>3. (have - c) * den = have * den - c * den
      BY ONLY <3>1, den \in Nat, SumTimes
    <3>4. QED
      BY ONLY <3>2, <3>3, Zenon DEF N
  <2>3. M \in Nat /\ N \in Nat
    <3> HIDE DEF rest
    <3>1. QED
      BY <2>1, ProductIsNat
  <2>4. N = B + C - K
    <3>1. K \in Nat
      BY <1>3
    <3> HIDE DEF N, B, C, K
    <3>2. QED
      BY ONLY <1>1, <1>2, <2>2, <3>1
  <2> HIDE DEF N, B, C, K, M, rest
  <2>5. QED
    BY <2>1, <2>3, <2>4
<1>7. q + F < B + C + num
  <2> HIDE DEF q, A, B, C, F
  <2>1. QED
    BY <1>1, <1>4, <1>5
<1>8. p.produced = frames /\ G = F
  <2>1. ASSUME p.produced < frames PROVE G + num <= F
    <3>1. p.produced + 1 \in Nat /\ p.produced + 1 <= frames
      <4> HIDE DEF q, A, B, C, F, G, K
      <4>1. QED
        BY <1>3, <2>1
    <3>2. (p.produced + 1) * num <= frames * num
      BY <3>1, Monotone
    <3>3. (p.produced + 1) * num = p.produced * num + num
      BY <1>3, NextMultiple
    <3> DEFINE x == (p.produced + 1) * num
    <3>4. x <= F /\ x = G + num
      BY <3>2, <3>3
    <3> HIDE DEF x, F, G
    <3>5. QED
      BY <3>4
  <2> HIDE DEF p, q, A, B, C, F
  <2>2. ~(p.produced < frames)
    <3> HIDE DEF G, K, M, N
    <3>1. CASE q >= B + C /\ p.produced = 0
      BY <1>1, <1>5, <1>7, <3>1
    <3>2. CASE q + G >= B + C
      BY <1>1, <1>3, <1>7, <2>1, <3>2
    <3>3. QED
      BY <1>3, <3>1, <3>2
  <2>3. p.produced = frames
    <3> HIDE DEF q, A, B, C, G, K
    <3>1. QED
      BY ONLY <1>3, <2>2, frames \in Nat
  <2>4. QED
    BY <2>3 DEF F
<1>9. left + n > 0
  <2>1. ASSUME left = 0, n = 0 PROVE FALSE
    <3>1. A = 0 /\ B = 0 /\ C = 0
      BY <2>1
    <3> HIDE DEF q, A, B, C, F
    <3>2. QED
      BY <1>1, <1>5, <1>7, <3>1
  <2>2. QED
    BY <2>1
<1> DEFINE q2 == p.last * den + p.frac
<1>10. ASSUME p.consumed = left + n
       PROVE  /\ left + n > 0 /\ p.produced = frames /\ p.consumed \in Nat /\ rest \in Nat
              /\ p.last \in Nat /\ p.frac \in Nat /\ p.frac < den
              /\ rest * num < num + den
              /\ p.last * den + p.frac + rest * num < rest * den + num
  <2>1. rest = 0
    BY <1>10
  <2>2. M = 0 /\ N = 0
    BY <2>1
  <2>3. q2 = q + F - (B + C)
    <3>1. q2 = q + G - K
      BY <1>3
    <3>2. K = B + C
      BY ONLY <1>1, <1>3, <1>6, <2>2, SMTT(40)
    <3>3. QED
      BY <1>1, <1>3, <1>8, <3>1, <3>2
  <2> HIDE DEF q2, q, A, B, C, F, M, N, rest, p
  <2>4. M < num + den /\ q2 + M < N + num
    BY <1>1, <1>7, <2>2, <2>3
  <2>5. QED
    BY <1>3, <1>6, <1>8, <1>9, <2>4 DEF q2, M, N, rest, p
<1>11. ASSUME p.consumed < left + n
       PROVE  /\ left + n > 0 /\ p.produced = frames /\ p.consumed \in Nat /\ rest \in Nat
              /\ p.last \in Nat /\ p.frac \in Nat /\ p.frac < den
              /\ rest * num < num + den
              /\ p.last * den + p.frac + rest * num < rest * den + num
  <2>1. q2 = p.frac /\ q2 \in Nat /\ q2 < den /\ q2 = q + F - K
    <3>1. p.last = 0
      <4> HIDE DEF q, A, B, C, G, K
      <4>1. QED
        BY ONLY <1>3, <1>11
    <3>2. q2 = p.frac
      BY <1>3, <3>1
    <3>3. q2 = q + G - K
      BY <1>3
    <3>4. QED
      BY <1>3, <1>8, <3>2, <3>3
  <2>2. rest > 0
    <3>1. rest = (left + n) - p.consumed
      OBVIOUS
    <3> HIDE DEF q, A, B, C, F, G, K, M, N, rest
    <3>2. p.consumed \in Nat
      BY ONLY <1>3, Zenon
    <3>3. QED
      BY ONLY <1>11, <3>1, <3>2, left \in Nat, n \in Nat
  <2>3. rest * num < num + den
    <3>1. CASE frames <= left
      <4>1. n = 0
        BY <3>1 DEF NeededFor
      <4>2. rest <= left
        BY <1>3, <4>1
      <4> HIDE DEF rest
      <4>3. rest * num <= left * num
        BY <1>6, <4>2, Monotone
      <4>4. QED
        BY <1>1, <1>4, <1>6, <4>3
    <3>2. CASE frames > left
      <4>1. N < B - A + 2 * den
        <5> HIDE DEF q2, q, A, B, C, F, K, M, N, rest, p
        <5>1. QED
          BY <1>1, <1>3, <1>5, <1>6, <2>1, <3>2
      <4>2. CASE A >= den
        <5>1. N < (left + 1) * den
          <6>1. (left + 1) * den = B + den
            BY NextMultiple
          <6> HIDE DEF A, B, N
          <6>2. QED
            BY <1>1, <1>6, <4>1, <4>2, <6>1
        <5> HIDE DEF rest
        <5>2. rest < left + 1
          BY <1>6, <5>1, LessFactor
        <5>3. rest <= left
          BY <1>6, <5>2
        <5>4. rest * num <= left * num
          BY <1>6, <5>3, Monotone
        <5>5. QED
          BY <1>1, <1>4, <1>6, <5>4
      <4>3. CASE A < den
        <5>1. N < (left + 2) * den
          <6>1. (left + 2) * den = B + 2 * den
            BY SumTimes
          <6> HIDE DEF A, B, N
          <6>2. QED
            BY <1>1, <1>6, <4>1, <6>1
        <5> HIDE DEF rest
        <5>2. rest < left + 2
          BY <1>6, <5>1, LessFactor
        <5>3. rest <= left + 1
          BY <1>6, <5>2
        <5>4. rest * num <= (left + 1) * num
          BY <1>6, <5>3, Monotone
        <5>5. (left + 1) * num = A + num
          BY NextMultiple
        <5>6. M <= A + num
          BY <5>4, <5>5
        <5> HIDE DEF A, M
        <5>7. M < num + den
          BY <1>1, <1>6, <4>3, <5>6
        <5>8. QED
          BY <5>7 DEF M
      <4>4. QED
        BY <1>1, <4>2, <4>3
    <3>3. QED
      BY <3>1, <3>2
  <2>4. q2 + M < N + num
    <3> HIDE DEF q2, rest
    <3>1. q2 + rest * num < rest * den + num
      BY <1>6, <2>1, <2>2, <2>3, LeftStarts
    <3>2. QED
      BY <3>1
  <2> HIDE DEF p, rest
  <2>5. QED
    BY <1>3, <1>6, <1>8, <1>9, <2>3, <2>4 DEF q2, M, N, rest, p
<1>12. p.consumed = left + n \/ p.consumed < left + n
  <2> HIDE DEF q, A, B, C, G, K
  <2>1. QED
    BY ONLY <1>3, left \in Nat, n \in Nat
<1>13. /\ left + n > 0 /\ p.produced = frames /\ p.consumed \in Nat /\ rest \in Nat
       /\ p.last \in Nat /\ p.frac \in Nat /\ p.frac < den
       /\ rest * num < num + den
       /\ p.last * den + p.frac + rest * num < rest * den + num
  BY <1>10, <1>11, <1>12
<1>14. Filled(p, num, den, left + n, frames)
  BY ONLY <1>13, Zenon DEF Filled, rest
<1>15. QED
  BY <1>14 DEF p

LEMMA LeastQuotient ==
  ASSUME NEW m \in Nat, NEW n \in Nat, NEW d \in Nat, d > 0, m * d <= n PROVE m <= n \div d
<1> DEFINE x == n \div d
           y == x * d
           z == (x + 1) * d
           r == n % d
<1>1. x \in Nat /\ y \in Nat /\ r \in Nat /\ r < d /\ r = n - y
  BY Quotient
<1> HIDE DEF x, r
<1>2. z = y + d
  BY <1>1, NextMultiple
<1> HIDE DEF y, z
<1>3. m * d \in Nat
  BY ProductIsNat
<1> DEFINE k == m * d
<1>4. k \in Nat /\ k <= n
  BY <1>3
<1> HIDE DEF k
<1>5. k < z
  BY ONLY <1>1, <1>2, <1>4, n \in Nat, d \in Nat
<1>6. m * d < (x + 1) * d
  BY <1>5 DEF k, z
<1>7. m < x + 1
  BY ONLY <1>1, <1>6, LessFactor, m \in Nat, d \in Nat, x + 1 \in Nat
<1>8. m <= x
  BY ONLY <1>1, <1>7, m \in Nat
<1>9. QED
  BY <1>8 DEF x

\* A resampled input gives as much as output_for_input says, but for the frames
\* between two of its own, and keeps less than one more would take.
LEMMA TakesAll ==
  ASSUME NEW num \in Nat, num > 0, NEW den \in Nat, den > 0, NEW last \in Nat, NEW frac \in Nat,
         frac < den, NEW have \in Nat, have > 0, NEW n \in Nat, n = (have * den) \div num,
         last * den + frac < num \/ last * den + frac < den
  PROVE  /\ n = 0 => have * den < num + den
         /\ n > 0 => LET p == Front!Process(num, den, last, frac, have, n)
                         rest == have - p.consumed IN
              /\ p.consumed \in Nat /\ rest \in Nat /\ rest * den < num + den
              /\ p.last \in Nat /\ p.frac \in Nat /\ p.frac < den
              /\ p.last * den + p.frac < num \/ p.last * den + p.frac < den
              /\ p.produced \in Nat /\ n - p.produced <= (den - 1) \div num
<1> DEFINE q == last * den + frac
           H == have * den
           D == n * num
<1>1. H \in Nat /\ q \in Nat
  <2>1. last * den \in Nat /\ H \in Nat
    BY ProductIsNat
  <2>2. QED
    BY <2>1
<1>2. q < num \/ q < den
  OBVIOUS
<1>3. D \in Nat /\ D <= H /\ H < D + num
  <2> HIDE DEF H
  <2>1. n = H \div num
    BY DEF H
  <2>2. H \div num \in Nat /\ (H \div num) * num \in Nat /\ H % num \in Nat /\ H % num < num
        /\ H % num = H - (H \div num) * num
    BY <1>1, Quotient
  <2> DEFINE r == H % num
  <2>3. D \in Nat /\ r \in Nat /\ r < num /\ r = H - D
    BY ONLY <2>1, <2>2, Zenon
  <2> HIDE DEF r, D
  <2>4. QED
    BY ONLY <1>1, <2>3, num \in Nat
<1>4. H >= den
  <2>1. 1 * den <= have * den
    BY Monotone
  <2>2. 1 * den = den
    OBVIOUS
  <2>3. QED
    BY ONLY <2>1, <2>2, Zenon
<1>5. ASSUME n = 0 PROVE H < num + den
  <2>1. D = 0
    BY <1>5
  <2> HIDE DEF D, H
  <2>2. QED
    BY ONLY <1>1, <1>3, <2>1, num \in Nat, den \in Nat, den > 0
<1> DEFINE p == Front!Process(num, den, last, frac, have, n)
           c == p.consumed
           g == p.produced
           rest == have - c
           G == g * num
           K == c * den
           N == rest * den
           q2 == p.last * den + p.frac
<1>6. ASSUME n > 0
      PROVE  /\ c \in Nat /\ rest \in Nat /\ N < num + den
             /\ p.last \in Nat /\ p.frac \in Nat /\ p.frac < den
             /\ q2 < num \/ q2 < den
             /\ g \in Nat /\ n - g <= (den - 1) \div num
  <2>1. Works(p, num, den, q, H, have, n)
    BY FrontProcess, Zenon
  <2> HIDE DEF p
  <2>2. /\ G \in Nat /\ g \in Nat /\ g <= n /\ c \in Nat /\ c <= have /\ K \in Nat
        /\ p.last \in Nat /\ p.frac \in Nat /\ p.frac < den
        /\ q2 = q + (G - K)
        /\ c < have => p.last = 0
        /\ \/ q >= H /\ g = 0
           \/ q < H /\ g = n /\ q + G < H + num
           \/ q < H /\ q + G >= H /\ q + G < H + num
    <3> HIDE DEF q, H
    <3>1. QED
      BY ONLY <2>1 DEF Works
  <2>3. c < have => q2 = p.frac
    <3>1. ASSUME p.last = 0 PROVE q2 = p.frac
      <4>1. p.frac \in Nat
        BY <2>2
      <4>2. QED
        BY ONLY <3>1, <4>1, den \in Nat
    <3> HIDE DEF q2, q, H, G, K
    <3>2. QED
      BY ONLY <2>2, <3>1, Zenon
  <2>4. D >= num
    <3>1. 1 <= n
      BY <1>6
    <3>2. 1 * num <= n * num
      BY <3>1, Monotone
    <3>3. 1 * num = num
      OBVIOUS
    <3>4. QED
      BY ONLY <3>2, <3>3, Zenon
  <2>5. rest \in Nat /\ N \in Nat /\ N = H - K
    <3>1. rest \in Nat
      <4> HIDE DEF G, K, q, H, q2, c
      <4>1. QED
        BY ONLY <2>2, have \in Nat
    <3>2. c \in Int
      <4> HIDE DEF G, K, q, H, q2, c
      <4>1. QED
        BY ONLY <2>2
    <3> HIDE DEF c
    <3>3. N = H - K
      BY ONLY <3>2, have \in Int, den \in Int, SumTimes
    <3> HIDE DEF rest
    <3>4. N \in Nat
      BY ONLY <3>1, den \in Nat, ProductIsNat
    <3>5. QED
      BY ONLY <3>1, <3>3, <3>4, Zenon
  <2>6. c < have => N >= den
    <3>1. ASSUME c < have PROVE N >= den
      <4>1. rest >= 1
        <5> HIDE DEF c
        <5>1. rest = have - c
          OBVIOUS
        <5>2. c \in Nat
          BY ONLY <2>2, Zenon
        <5> HIDE DEF rest
        <5>3. QED
          BY ONLY <3>1, <5>1, <5>2, have \in Nat
      <4> HIDE DEF rest
      <4>2. 1 * den <= rest * den
        BY ONLY <4>1, <2>5, den \in Nat, Monotone
      <4>3. 1 * den = den
        OBVIOUS
      <4>4. QED
        BY ONLY <4>2, <4>3, Zenon
    <3>2. QED
      BY <3>1
  <2>7. c = have => N = 0
    OBVIOUS
  <2>8. D - G = (n - g) * num /\ n - g \in Nat
    <3>1. g \in Nat /\ g <= n
      BY ONLY <2>2, Zenon
    <3> HIDE DEF g
    <3>2. (n - g) * num = D - G
      BY ONLY <3>1, n \in Int, num \in Int, SumTimes
    <3>3. n - g \in Nat
      BY ONLY <3>1, n \in Nat
    <3>4. QED
      BY ONLY <3>2, <3>3, Zenon
  <2>9. g = n => G = D
    OBVIOUS
  <2>10. g = 0 => G = 0
    OBVIOUS
  <2> DEFINE up == (den - 1) \div num
  <2>11. up \in Nat
    <3>1. den - 1 \in Nat
      OBVIOUS
    <3>2. QED
      BY ONLY <3>1, Quotient, num \in Nat, num > 0
  <2>12. D - G < den => n - g <= up
    <3>1. ASSUME D - G < den PROVE n - g <= up
      <4> DEFINE m == n - g
                 x == m * num
                 d == den - 1
      <4>1. m \in Nat /\ x = D - G
        BY ONLY <2>8, Zenon
      <4>2. d \in Nat /\ d = den - 1
        OBVIOUS
      <4> HIDE DEF m
      <4>3. x \in Nat
        BY ONLY <4>1, num \in Nat, ProductIsNat
      <4> HIDE DEF x, d, D, G
      <4>4. x <= d
        BY ONLY <3>1, <4>1, <4>2, <4>3, den \in Nat
      <4>5. m <= d \div num
        BY ONLY <4>1, <4>2, <4>4, LeastQuotient, num \in Nat, num > 0 DEF x
      <4>6. QED
        BY ONLY <4>5, Zenon DEF m, d
    <3>2. QED
      BY <3>1
  <2>13. D - G < num => n - g <= 0
    <3>1. ASSUME D - G < num PROVE n - g <= 0
      <4> DEFINE m == n - g
      <4>1. m \in Nat /\ m * num = D - G
        BY ONLY <2>8, Zenon
      <4> HIDE DEF m
      <4>2. m * num < 1 * num
        <5>1. 1 * num = num
          OBVIOUS
        <5>2. QED
          BY ONLY <3>1, <4>1, <5>1, Zenon
      <4>3. m < 1
        BY ONLY <4>1, <4>2, LessFactor, num \in Nat, 1 \in Nat
      <4>4. m <= 0
        BY ONLY <4>1, <4>3
      <4>5. QED
        BY <4>4 DEF m
    <3>2. QED
      BY <3>1
  <2>14. n - g \in Int
    BY ONLY <2>8
  <2> HIDE DEF q, H, D, G, K, N, q2, c, g, rest, up
  <2>15. ~(q >= H)
    BY ONLY <1>1, <1>2, <1>3, <1>4, <2>4, num \in Nat, den \in Nat
  <2>16. CASE q < H /\ g = n /\ q + G < H + num
    <3>1. G = D /\ n - g <= up
      <4>1. n - g = 0
        BY ONLY <2>16, n \in Nat
      <4>2. QED
        BY ONLY <2>9, <2>11, <2>16, <4>1
    <3>2. N < num + den /\ (q2 < num \/ q2 < den)
      <4>1. CASE c = have
        BY ONLY <1>1, <1>2, <1>3, <2>2, <2>5, <2>7, <3>1, <4>1, num \in Nat, den \in Nat, num > 0
      <4>2. CASE c < have
        BY ONLY <1>1, <1>3, <2>2, <2>3, <2>5, <3>1, <4>2, num \in Nat, den \in Nat
      <4>3. c = have \/ c < have
        BY ONLY <2>2, have \in Nat
      <4>4. QED
        BY ONLY <4>1, <4>2, <4>3, Zenon
    <3>3. QED
      BY ONLY <2>2, <2>5, <3>1, <3>2, Zenon DEF up
  <2>17. CASE q < H /\ q + G >= H /\ q + G < H + num
    <3>1. ~(c < have)
      BY ONLY <1>1, <2>2, <2>3, <2>5, <2>6, <2>17, den \in Nat
    <3>2. c = have
      BY ONLY <2>2, <3>1, have \in Nat
    <3>3. N < num + den /\ q2 < num
      BY ONLY <1>1, <2>2, <2>5, <2>7, <2>17, <3>2, num \in Nat, den \in Nat, num > 0
    <3>4. n - g <= up
      <4>1. D - G <= q
        BY ONLY <1>1, <1>3, <2>2, <2>17
      <4>2. D - G < num \/ D - G < den
        BY ONLY <1>1, <1>2, <1>3, <2>2, <4>1, num \in Nat, den \in Nat
      <4>3. QED
        BY ONLY <2>11, <2>12, <2>13, <2>14, <4>2
    <3>5. QED
      BY ONLY <2>2, <2>5, <3>3, <3>4, Zenon DEF up
  <2>18. QED
    BY ONLY <2>2, <2>15, <2>16, <2>17, Zenon
<1>7. QED
  BY <1>5, <1>6, Zenon

\* What the constants of the front end are.
LEMMA FrontConstants ==
  ASSUME ComponentsAssumption
  PROVE  /\ \A r \in Ratios : r[1] \in Nat /\ r[1] > 0 /\ r[2] \in Nat /\ r[2] > 0
                              /\ r = <<r[1], r[2]>> /\ r # Front!NoRatio
         /\ FrontKinds \subseteq Front!Lines \cup {"pass", "input", "output", "both"}
         /\ HalfFilter \in Nat /\ HalfFilter > 0 /\ Keep \in Nat
         /\ MaxGive \in Nat /\ MaxRecorded \in Nat
BY DEF ComponentsAssumption, Front!FrontAssumption, Front!NoRatio

LEMMA ResamplerIs ==
  ASSUME ComponentsAssumption, NEW p \in Front!Resamplers
  PROVE  /\ p.ratio \in Ratios /\ ~Front!IsLine(p)
         /\ p.ratio[1] \in Nat /\ p.ratio[1] > 0 /\ p.ratio[2] \in Nat /\ p.ratio[2] > 0
         /\ p.left \in Nat /\ p.pos[1] \in Nat /\ p.pos[2] \in Nat /\ p.pos[2] < p.ratio[2]
         /\ p.pos = <<p.pos[1], p.pos[2]>>
         /\ p = [ratio |-> p.ratio, left |-> p.left, pos |-> p.pos]
<1>1. /\ p \in [ratio : Ratios, left : Nat, pos : Nat \X Nat] /\ p.pos[2] < p.ratio[2]
  BY DEF Front!Resamplers
<1>2. QED
  BY <1>1, FrontConstants DEF Front!IsLine

LEMMA ResamplerMade ==
  ASSUME ComponentsAssumption, NEW r \in Ratios, NEW left \in Nat, NEW last \in Nat,
         NEW frac \in Nat, frac < r[2]
  PROVE  [ratio |-> r, left |-> left, pos |-> <<last, frac>>] \in Front!Resamplers
BY DEF Front!Resamplers

\* More to resample.
LEMMA ResamplerFed ==
  ASSUME ComponentsAssumption, NEW p \in Front!Resamplers, NEW n \in Nat
  PROVE  /\ [p EXCEPT !.left = @ + n] \in Front!Resamplers
         /\ [p EXCEPT !.left = @ + n] = [ratio |-> p.ratio, left |-> p.left + n, pos |-> p.pos]
<1>1. /\ p.ratio \in Ratios /\ p.left \in Nat /\ p.pos[1] \in Nat /\ p.pos[2] \in Nat
      /\ p.pos[2] < p.ratio[2] /\ p.pos = <<p.pos[1], p.pos[2]>>
      /\ p = [ratio |-> p.ratio, left |-> p.left, pos |-> p.pos]
  BY ResamplerIs
<1>2. p.left + n \in Nat
  BY <1>1
<1>3. [p EXCEPT !.left = @ + n] = [ratio |-> p.ratio, left |-> p.left + n, pos |-> p.pos]
  BY <1>1
<1>4. [ratio |-> p.ratio, left |-> p.left + n, pos |-> <<p.pos[1], p.pos[2]>>] \in Front!Resamplers
  BY <1>1, <1>2, ResamplerMade
<1>5. QED
  BY <1>1, <1>3, <1>4

LEMMA LineIs ==
  ASSUME NEW p \in Front!DelayLines
  PROVE  Front!IsLine(p) /\ p.left \in Nat /\ p = Front!DelayLine(p.left)
BY DEF Front!DelayLines, Front!DelayLine, Front!IsLine

LEMMA LineFed ==
  ASSUME NEW p \in Front!DelayLines, NEW n \in Nat
  PROVE  /\ [p EXCEPT !.left = @ + n] \in Front!DelayLines
         /\ [p EXCEPT !.left = @ + n].left = p.left + n
BY DEF Front!DelayLines, Front!DelayLine

\* What output does with a delay line and with a resampler.
LEMMA LineOutput ==
  ASSUME NEW p \in Front!DelayLines, NEW frames \in Nat
  PROVE  LET o == Front!Output(p, frames)
             there == IF p.left < frames THEN p.left ELSE frames IN
         o.made = there /\ o.rest \in Front!DelayLines /\ o.rest.left = p.left - there
<1> DEFINE there == IF p.left < frames THEN p.left ELSE frames
           o == Front!Output(p, frames)
<1>1. p.left \in Nat /\ p = [ratio |-> Front!NoRatio, left |-> p.left, pos |-> <<0, 0>>]
      /\ Front!IsLine(p)
  BY LineIs DEF Front!DelayLine
<1>2. o = [made |-> there, used |-> there,
           rest |-> [p EXCEPT !.left = @ - there, !.pos = p.pos]]
  BY <1>1 DEF Front!Output, Front!Least
<1>3. p.left - there \in Nat
  BY <1>1
<1> HIDE DEF there, o
<1>4. [p EXCEPT !.left = @ - there, !.pos = p.pos] = Front!DelayLine(p.left - there)
  <2>1. p.ratio = Front!NoRatio /\ p.pos = <<0, 0>>
    BY <1>1
  <2> DEFINE l == p.left - there
             e == [p EXCEPT !.left = l, !.pos = p.pos]
  <2>2. e = [ratio |-> Front!NoRatio, left |-> l, pos |-> <<0, 0>>]
    <3> DEFINE k == p.left
    <3>1. p = [ratio |-> Front!NoRatio, left |-> k, pos |-> <<0, 0>>]
      BY <1>1
    <3>2. e = [p EXCEPT !.left = l, !.pos = <<0, 0>>]
      BY <2>1
    <3> HIDE DEF l, k, e
    <3>3. QED
      BY ONLY <3>1, <3>2
  <2>3. [p EXCEPT !.left = @ - there, !.pos = p.pos] = e
    OBVIOUS
  <2>4. QED
    BY <2>2, <2>3 DEF Front!DelayLine
<1>5. Front!DelayLine(p.left - there).left = p.left - there
  BY DEF Front!DelayLine
<1>6. o.made = there /\ o.rest \in Front!DelayLines /\ o.rest.left = p.left - there
  BY <1>2, <1>3, <1>4, <1>5 DEF Front!DelayLines
<1>7. QED
  BY <1>6 DEF there, o

LEMMA FrontOutput ==
  ASSUME ComponentsAssumption, NEW p \in Front!Resamplers, NEW frames \in Nat
  PROVE  LET o == Front!Output(p, frames)
             s == Front!Process(p.ratio[1], p.ratio[2], p.pos[1], p.pos[2], p.left, frames) IN
         /\ o.rest \in Front!Resamplers /\ o.rest.ratio = p.ratio /\ o.made \in Nat
         /\ p.left > 0 /\ frames > 0 =>
              /\ o.made = s.produced
              /\ o.rest = [ratio |-> p.ratio, left |-> p.left - s.consumed,
                           pos |-> <<s.last, s.frac>>]
<1> DEFINE o == Front!Output(p, frames)
           s == Front!Process(p.ratio[1], p.ratio[2], p.pos[1], p.pos[2], p.left, frames)
           none == [consumed |-> 0, produced |-> 0, pos |-> p.pos]
           some == [consumed |-> s.consumed, produced |-> s.produced, pos |-> <<s.last, s.frac>>]
<1>1. /\ p.ratio \in Ratios /\ ~Front!IsLine(p)
      /\ p.ratio[1] \in Nat /\ p.ratio[1] > 0 /\ p.ratio[2] \in Nat /\ p.ratio[2] > 0
      /\ p.left \in Nat /\ p.pos[1] \in Nat /\ p.pos[2] \in Nat /\ p.pos[2] < p.ratio[2]
      /\ p = [ratio |-> p.ratio, left |-> p.left, pos |-> p.pos]
  BY ResamplerIs
<1>2. Front!Speex(p, p.left, frames) = IF p.left = 0 \/ frames = 0 THEN none ELSE some
  BY DEF Front!Speex
<1> DEFINE r == Front!Speex(p, p.left, frames)
<1>3. o = [made |-> r.produced, used |-> r.consumed,
           rest |-> [p EXCEPT !.left = @ - r.consumed, !.pos = r.pos]]
  BY <1>1 DEF Front!Output
<1>4. /\ s.consumed \in Nat /\ s.consumed <= p.left /\ s.produced \in Nat
      /\ s.last \in Nat /\ s.frac \in Nat /\ s.frac < p.ratio[2]
  <2> DEFINE q == p.pos[1] * p.ratio[2] + p.pos[2]
             h == p.left * p.ratio[2]
  <2>1. Works(s, p.ratio[1], p.ratio[2], q, h, p.left, frames)
    BY <1>1, FrontProcess, Zenon
  <2> HIDE DEF s, q, h
  <2>2. QED
    BY ONLY <2>1, Zenon DEF Works
<1> HIDE DEF s, r, o
<1>5. CASE p.left = 0 \/ frames = 0
  <2>1. r = none
    BY <1>2, <1>5 DEF r
  <2>2. p.left - 0 = p.left
    BY <1>1
  <2>3. [p EXCEPT !.left = @ - r.consumed, !.pos = r.pos] = p
    BY <1>1, <2>1, <2>2
  <2>4. o.rest = p /\ o.made = 0
    BY <1>3, <2>1, <2>3
  <2>5. ~(p.left > 0 /\ frames > 0)
    BY <1>1, <1>5
  <2>6. QED
    BY <2>4, <2>5 DEF o
<1>6. CASE ~(p.left = 0 \/ frames = 0)
  <2>1. r = some
    BY <1>2, <1>6 DEF r
  <2>2. p.left - s.consumed \in Nat
    BY <1>1, <1>4
  <2>3. o.rest = [ratio |-> p.ratio, left |-> p.left - s.consumed, pos |-> <<s.last, s.frac>>]
        /\ o.made = s.produced
    BY <1>1, <1>3, <2>1
  <2>4. o.rest \in Front!Resamplers
    BY <1>1, <1>4, <2>2, <2>3, ResamplerMade
  <2>5. QED
    BY <1>4, <2>3, <2>4 DEF o, s
<1>7. QED
  BY <1>5, <1>6

\* drop_audio_if_needed drops what is too much, and nothing else changes.
LEMMA LineDropped ==
  ASSUME ComponentsAssumption, NEW p \in Front!DelayLines
  PROVE  /\ Front!Dropped(p) \in Front!DelayLines
         /\ p.left <= Keep => Front!Dropped(p).left = p.left
<1>1. PICK k \in Nat : p = [ratio |-> Front!NoRatio, left |-> k, pos |-> <<0, 0>>]
  BY DEF Front!DelayLines, Front!DelayLine
<1> DEFINE l == IF k < Keep THEN k ELSE Keep
<1>2. Front!Dropped(p) = [ratio |-> Front!NoRatio, left |-> l, pos |-> <<0, 0>>]
  BY <1>1 DEF Front!Dropped, Front!Least
<1>3. l \in Nat /\ (k <= Keep => l = k)
  BY FrontConstants
<1> HIDE DEF l
<1>4. Front!Dropped(p) = Front!DelayLine(l)
  BY <1>2 DEF Front!DelayLine
<1>5. Front!Dropped(p).left = l /\ p.left = k
  BY <1>1, <1>2
<1>6. QED
  BY <1>3, <1>4, <1>5 DEF Front!DelayLines

LEMMA ResamplerDropped ==
  ASSUME ComponentsAssumption, NEW p \in Front!Resamplers
  PROVE  /\ Front!Dropped(p) \in Front!Resamplers /\ Front!Dropped(p).ratio = p.ratio
         /\ p.left <= Keep => Front!Dropped(p) = p
<1> DEFINE l == IF p.left < Keep THEN p.left ELSE Keep
<1>1. /\ p.ratio \in Ratios /\ p.left \in Nat /\ p.pos[1] \in Nat /\ p.pos[2] \in Nat
      /\ p.pos[2] < p.ratio[2] /\ p.pos = <<p.pos[1], p.pos[2]>>
      /\ p = [ratio |-> p.ratio, left |-> p.left, pos |-> p.pos]
  BY ResamplerIs
<1>2. l \in Nat /\ (p.left <= Keep => l = p.left)
  BY <1>1, FrontConstants
<1>3. Front!Dropped(p) = [p EXCEPT !.left = l]
  BY DEF Front!Dropped, Front!Least
<1> HIDE DEF l
<1>4. Front!Dropped(p) = [ratio |-> p.ratio, left |-> l, pos |-> p.pos]
  BY <1>1, <1>3
<1>5. [ratio |-> p.ratio, left |-> l, pos |-> <<p.pos[1], p.pos[2]>>] \in Front!Resamplers
  BY <1>1, <1>2, ResamplerMade
<1>6. QED
  BY <1>1, <1>2, <1>4, <1>5

\* The resampler as it is made.
LEMMA FrontOneWay ==
  ASSUME ComponentsAssumption, NEW r \in Ratios
  PROVE  LET p == Front!OneWay(r) IN
         p \in Front!Resamplers /\ p.ratio = r /\ Front!OutKept(p) /\ Front!InKept(p)
<1> DEFINE num == r[1]
           den == r[2]
           q == 0 * den + 0
           h == HalfFilter * den
           wanted == HalfFilter * den + 1
           s == Front!Process(num, den, 0, 0, HalfFilter, wanted)
           p == Front!OneWay(r)
<1>1. num \in Nat /\ num > 0 /\ den \in Nat /\ den > 0 /\ HalfFilter \in Nat /\ HalfFilter > 0
  BY FrontConstants
<1>2. h \in Nat /\ h >= den
  <2> HIDE DEF num, den
  <2>1. h \in Nat
    BY ONLY <1>1, ProductIsNat DEF h
  <2>2. 1 * den <= HalfFilter * den
    BY ONLY <1>1, Monotone
  <2>3. 1 * den = den
    BY ONLY <1>1
  <2>4. QED
    BY ONLY <2>1, <2>2, <2>3, Zenon DEF h
<1>3. wanted \in Nat /\ wanted = h + 1 /\ wanted # 0
  <2>1. wanted = h + 1
    OBVIOUS
  <2> HIDE DEF h, wanted
  <2>2. QED
    BY ONLY <1>2, <2>1
<1>4. Works(s, num, den, q, h, HalfFilter, wanted)
  <2>1. 0 \in Nat /\ 0 < den
    BY <1>1
  <2> HIDE DEF num, den
  <2>2. QED
    BY ONLY <1>1, <1>3, <2>1, FrontProcess, Zenon DEF s, h, q
<1>5. q = 0
  BY <1>1
<1>6. p = [ratio |-> r, left |-> 0, pos |-> <<s.last, s.frac>>]
  <2>1. Front!Speex([ratio |-> r, left |-> 0, pos |-> <<0, 0>>], HalfFilter, wanted).pos
          = <<s.last, s.frac>>
    <3>1. ~(HalfFilter = 0 \/ wanted = 0)
      BY <1>1, <1>3
    <3>2. QED
      BY <3>1 DEF Front!Speex
  <2> HIDE DEF s
  <2>2. QED
    BY <2>1 DEF Front!OneWay
<1> DEFINE q2 == s.last * den + s.frac
           G == s.produced * num
           K == s.consumed * den
<1>7. /\ s.produced \in Nat /\ s.produced <= wanted /\ G \in Nat /\ K \in Nat
      /\ s.consumed \in Nat /\ s.consumed <= HalfFilter
      /\ s.last \in Nat /\ s.frac \in Nat /\ s.frac < den
      /\ q2 = q + (G - K)
      /\ s.consumed < HalfFilter => s.last = 0
      /\ \/ q >= h /\ s.produced = 0
         \/ q < h /\ s.produced = wanted /\ q + G < h + num
         \/ q < h /\ q + G >= h /\ q + G < h + num
  <2> HIDE DEF s, q, h, num, den
  <2>1. QED
    BY ONLY <1>4 DEF Works
<1> HIDE DEF s, num, den, q, h, wanted
<1>8. s.consumed = HalfFilter => K = h
  BY DEF h
<1>9. s.consumed < HalfFilter => K + den <= h
  <2>1. ASSUME s.consumed < HalfFilter PROVE K + den <= h
    <3> DEFINE c == s.consumed
    <3>1. c \in Nat /\ c < HalfFilter
      BY ONLY <1>7, <2>1, Zenon
    <3> HIDE DEF c
    <3>2. (c + 1) * den <= HalfFilter * den /\ (c + 1) * den = c * den + den
      BY ONLY <1>1, <3>1, Monotone, NextMultiple, c + 1 \in Nat, c + 1 <= HalfFilter
    <3>3. c * den + den <= h
      BY ONLY <3>2, Zenon DEF h
    <3>4. QED
      BY <3>3 DEF c
  <2>2. QED
    BY <2>1
<1>10. s.consumed < HalfFilter => q2 = s.frac
  <2>1. ASSUME s.last = 0, s.frac \in Nat PROVE q2 = s.frac
    BY ONLY <1>1, <2>1
  <2> HIDE DEF q2, G, K
  <2>2. QED
    BY ONLY <1>7, <2>1, Zenon
<1>11. s.produced = wanted => G >= h + 1
  <2>1. ASSUME s.produced = wanted PROVE G >= h + 1
    <3>1. G = wanted * num
      BY <2>1
    <3>2. wanted * 1 <= wanted * num /\ wanted * 1 = wanted
      <4>1. 1 * wanted <= num * wanted
        BY ONLY <1>1, <1>3, Monotone, 1 \in Nat, 1 <= num
      <4>2. 1 * wanted = wanted /\ wanted * 1 = wanted /\ num * wanted = wanted * num
        BY ONLY <1>1, <1>3
      <4>3. QED
        BY ONLY <4>1, <4>2, Zenon
    <3>3. QED
      BY ONLY <1>3, <3>1, <3>2, Zenon
  <2>2. QED
    BY <2>1
<1>12. q2 < num /\ q2 \in Nat
  <2> HIDE DEF q2, G, K
  <2>1. s.consumed = HalfFilter
    BY ONLY <1>1, <1>2, <1>5, <1>7, <1>9, <1>10, <1>11
  <2>2. QED
    BY ONLY <1>1, <1>2, <1>5, <1>7, <1>8, <1>11, <2>1
<1>13. p \in Front!Resamplers
  <2>1. s.last \in Nat /\ s.frac \in Nat /\ s.frac < r[2]
    BY <1>7, Zenon DEF den
  <2>2. QED
    BY <1>6, <2>1, ResamplerMade
<1>14. /\ p.left * p.ratio[1] = 0 /\ p.left * p.ratio[2] = 0 /\ p.ratio[1] = num /\ p.ratio[2] = den
       /\ Front!Place(p) = q2 /\ p.ratio = r
  <2>1. p.left = 0 /\ p.ratio = r /\ p.pos[1] = s.last /\ p.pos[2] = s.frac
    BY <1>6
  <2>2. 0 * num = 0 /\ 0 * den = 0
    BY <1>1
  <2> HIDE DEF p
  <2>3. QED
    BY <2>1, <2>2 DEF Front!Place, num, den
<1> HIDE DEF p, q2
<1>15. Front!OutKept(p) /\ Front!InKept(p)
  BY <1>1, <1>12, <1>14 DEF Front!OutKept, Front!InKept
<1>16. QED
  BY <1>13, <1>14, <1>15 DEF p

\* The place and what is left, in the terms of the lemmas about numbers.
LEMMA KeptIs ==
  ASSUME NEW p, NEW r, NEW left, NEW last, NEW frac,
         p = [ratio |-> r, left |-> left, pos |-> <<last, frac>>]
  PROVE  /\ Front!OutKept(p) <=> /\ left * r[1] < r[1] + r[2]
                                 /\ last * r[2] + frac + left * r[1] < left * r[2] + r[1]
         /\ Front!InKept(p) <=> /\ left * r[2] < r[1] + r[2]
                                /\ last * r[2] + frac < r[1] \/ last * r[2] + frac < r[2]
<1>1. p.ratio = r /\ p.left = left /\ p.pos[1] = last /\ p.pos[2] = frac
  OBVIOUS
<1>2. Front!Place(p) = last * r[2] + frac
  BY ONLY <1>1, Zenon DEF Front!Place
<1>3. QED
  BY ONLY <1>1, <1>2, Zenon DEF Front!OutKept, Front!InKept

\* The output is filled from what the callback returns when it returns all it is
\* asked for, and what is left then is not too much.
LEMMA FrontPlays ==
  ASSUME ComponentsAssumption, Front!KeepsEnough, NEW p \in Front!Resamplers, Front!OutKept(p),
         NEW frames \in Nat, frames > 0
  PROVE  LET n == Front!Needed(p, frames)
             o == Front!Output([p EXCEPT !.left = @ + n], frames) IN
         /\ n \in Nat /\ o.made = frames
         /\ o.rest \in Front!Resamplers /\ Front!OutKept(o.rest)
         /\ Front!Dropped(o.rest) = o.rest
<1> DEFINE n == Front!Needed(p, frames)
           full == [p EXCEPT !.left = @ + n]
           o == Front!Output(full, frames)
           num == p.ratio[1]
           den == p.ratio[2]
           left == p.left
           last == p.pos[1]
           frac == p.pos[2]
<1>1. /\ p.ratio \in Ratios /\ ~Front!IsLine(p)
      /\ num \in Nat /\ num > 0 /\ den \in Nat /\ den > 0
      /\ left \in Nat /\ last \in Nat /\ frac \in Nat /\ frac < den
      /\ p = [ratio |-> p.ratio, left |-> p.left, pos |-> <<last, frac>>]
  BY ResamplerIs
<1>2. n = NeededFor(num, den, left, frames)
  BY <1>1 DEF Front!Needed, NeededFor
<1>3. n \in Nat
  <2>1. CASE frames <= left
    BY <1>2, <2>1 DEF NeededFor
  <2>2. CASE ~(frames <= left)
    <3> DEFINE x == (frames - left) * num
    <3>1. frames - left \in Nat
      BY <1>1, <2>2
    <3>2. x \in Nat
      <4> HIDE DEF left, num
      <4>1. QED
        BY ONLY <1>1, <3>1, ProductIsNat
    <3>3. n = Front!RoundUp(x, den)
      BY <1>2, <2>2 DEF NeededFor
    <3> HIDE DEF x, n, den
    <3>4. QED
      BY ONLY <1>1, <3>2, <3>3, RoundsUp
  <2>3. QED
    BY <2>1, <2>2
<1>4. left * num < num + den /\ last * den + frac + left * num < left * den + num
  <2>1. /\ Front!OutKept(p) <=> /\ left * num < num + den
                                /\ last * den + frac + left * num < left * den + num
    BY <1>1, KeptIs
  <2>2. QED
    BY ONLY <2>1, Front!OutKept(p), Zenon
<1> DEFINE s == Front!Process(num, den, last, frac, left + n, frames)
           rest == (left + n) - s.consumed
<1>5. /\ left + n > 0 /\ s.produced = frames /\ s.consumed \in Nat /\ rest \in Nat
      /\ s.last \in Nat /\ s.frac \in Nat /\ s.frac < den
      /\ rest * num < num + den
      /\ s.last * den + s.frac + rest * num < rest * den + num
  <2> HIDE DEF n, num, den, left, last, frac
  <2>1. /\ num \in Nat /\ num > 0 /\ den \in Nat /\ den > 0
        /\ left \in Nat /\ last \in Nat /\ frac \in Nat /\ frac < den
    BY ONLY <1>1, Zenon
  <2>2. Filled(s, num, den, left + n, frames)
    BY ONLY <1>2, <1>3, <1>4, <2>1, frames \in Nat, frames > 0, PlaysAll, Zenon
  <2> HIDE DEF s
  <2>3. QED
    BY ONLY <2>2, Zenon DEF Filled
<1>6. /\ full \in Front!Resamplers
      /\ full = [ratio |-> p.ratio, left |-> left + n, pos |-> p.pos]
  <2> HIDE DEF n
  <2>1. QED
    BY <1>3, ResamplerFed
<1>7. full.ratio = p.ratio /\ full.left = left + n /\ full.pos = p.pos
  <2> HIDE DEF full, n
  <2>1. QED
    BY <1>6
<1>8. /\ o.rest \in Front!Resamplers /\ o.made = s.produced
      /\ o.rest = [ratio |-> p.ratio, left |-> rest, pos |-> <<s.last, s.frac>>]
  <2> DEFINE t == Front!Process(full.ratio[1], full.ratio[2], full.pos[1], full.pos[2], full.left,
                                frames)
  <2>1. t = s
    <3> HIDE DEF full, n
    <3>1. QED
      BY ONLY <1>7, Zenon
  <2> HIDE DEF full
  <2>2. /\ o.rest \in Front!Resamplers
        /\ full.left > 0 /\ frames > 0 =>
             /\ o.made = t.produced
             /\ o.rest = [ratio |-> full.ratio, left |-> full.left - t.consumed,
                          pos |-> <<t.last, t.frac>>]
    BY <1>6, FrontOutput
  <2> HIDE DEF t, s, o, n
  <2>3. QED
    BY <1>5, <1>7, <2>1, <2>2
<1> HIDE DEF n, s, o, full, rest
<1>9. Front!OutKept(o.rest)
  <2> DEFINE e == o.rest
  <2>1. /\ Front!OutKept(e) <=> /\ rest * num < num + den
                                /\ s.last * den + s.frac + rest * num < rest * den + num
    <3>1. e = [ratio |-> p.ratio, left |-> rest, pos |-> <<s.last, s.frac>>]
      BY <1>8
    <3> HIDE DEF e
    <3>2. QED
      BY <3>1, KeptIs
  <2> HIDE DEF num, den
  <2>2. QED
    BY ONLY <1>5, <2>1, Zenon DEF e
<1>10. o.rest.left <= Keep
  <2>1. o.rest.left = rest
    BY <1>8
  <2> DEFINE u == Front!RoundUp(den, num)
  <2>2. u \in Nat /\ u <= Keep
    <3>1. u <= Keep
      BY <1>1 DEF Front!KeepsEnough
    <3> HIDE DEF num, den
    <3>2. u \in Nat
      BY ONLY <1>1, RoundsUp DEF u
    <3>3. QED
      BY <3>1, <3>2
  <2>3. u * num \in Nat /\ u * num >= den
    <3> HIDE DEF num, den
    <3>1. QED
      BY ONLY <1>1, RoundsUp DEF u
  <2> HIDE DEF num, den, u
  <2>4. rest * num < (u + 1) * num
    <3> DEFINE x == rest * num
               y == u * num
               z == (u + 1) * num
    <3>1. z = y + num
      BY ONLY <1>1, <2>2, NextMultiple
    <3>2. x \in Nat /\ x < num + den /\ y \in Nat /\ y >= den
      BY ONLY <1>1, <1>5, <2>3, ProductIsNat
    <3> HIDE DEF x, y, z
    <3>3. x < z
      BY ONLY <1>1, <3>1, <3>2
    <3>4. QED
      BY ONLY <3>3, Zenon DEF x, z
  <2>5. rest < u + 1
    BY ONLY <1>1, <1>5, <2>2, <2>4, u + 1 \in Nat, LessFactor
  <2>6. QED
    BY <1>5, <2>1, <2>2, <2>5, FrontConstants
<1>11. Front!Dropped(o.rest) = o.rest
  BY <1>8, <1>10, ResamplerDropped
<1>12. QED
  BY <1>3, <1>5, <1>8, <1>9, <1>11 DEF o, full, n

\* An input that is resampled alone.
LEMMA FrontTakes ==
  ASSUME ComponentsAssumption, NEW p \in Front!Resamplers, Front!InKept(p),
         NEW count \in Nat, count > 0
  PROVE  LET n == Front!OutputFor(p, count)
             full == [p EXCEPT !.left = @ + count]
             o == Front!Output(full, n) IN
         /\ n \in Nat /\ full \in Front!Resamplers /\ full.ratio = p.ratio
         /\ n = 0 => Front!InKept(full)
         /\ n > 0 => /\ o.rest \in Front!Resamplers /\ o.rest.ratio = p.ratio
                     /\ Front!InKept(o.rest)
                     /\ o.made \in Nat /\ n - o.made <= (p.ratio[2] - 1) \div p.ratio[1]
<1> DEFINE n == Front!OutputFor(p, count)
           full == [p EXCEPT !.left = @ + count]
           o == Front!Output(full, n)
           num == p.ratio[1]
           den == p.ratio[2]
           have == p.left + count
           last == p.pos[1]
           frac == p.pos[2]
<1>1. /\ p.ratio \in Ratios
      /\ num \in Nat /\ num > 0 /\ den \in Nat /\ den > 0
      /\ p.left \in Nat /\ last \in Nat /\ frac \in Nat /\ frac < den
      /\ p = [ratio |-> p.ratio, left |-> p.left, pos |-> <<last, frac>>]
      /\ p.pos = <<last, frac>>
  BY ResamplerIs
<1>2. have \in Nat /\ have > 0 /\ count + p.left = have
  BY <1>1
<1>3. n = (have * den) \div num /\ n \in Nat
  <2>1. n = ((count + p.left) * den) \div num
    BY DEF Front!OutputFor
  <2>2. n = (have * den) \div num
    <3> HIDE DEF n, have, num, den
    <3>1. QED
      BY ONLY <1>2, <2>1, Zenon
  <2> HIDE DEF n, have, num, den
  <2>3. have * den \in Nat
    BY ONLY <1>1, <1>2, ProductIsNat
  <2>4. n \in Nat
    BY ONLY <1>1, <2>2, <2>3, Quotient
  <2>5. QED
    BY <2>2, <2>4
<1>4. last * den + frac < num \/ last * den + frac < den
  <2>1. /\ Front!InKept(p) <=> /\ p.left * den < num + den
                               /\ last * den + frac < num \/ last * den + frac < den
    BY <1>1, KeptIs
  <2>2. QED
    BY ONLY <2>1, Front!InKept(p), Zenon
<1> DEFINE s == Front!Process(num, den, last, frac, have, n)
           rest == have - s.consumed
<1>5. /\ n = 0 => have * den < num + den
      /\ n > 0 => /\ s.consumed \in Nat /\ rest \in Nat /\ rest * den < num + den
                  /\ s.last \in Nat /\ s.frac \in Nat /\ s.frac < den
                  /\ s.last * den + s.frac < num \/ s.last * den + s.frac < den
                  /\ s.produced \in Nat /\ n - s.produced <= (den - 1) \div num
  <2> HIDE DEF n, num, den, have, last, frac
  <2>1. QED
    BY ONLY <1>1, <1>2, <1>3, <1>4, TakesAll, Zenon DEF s, rest
<1>6. /\ full \in Front!Resamplers
      /\ full = [ratio |-> p.ratio, left |-> have, pos |-> p.pos]
  BY ResamplerFed
<1>7. full.ratio = p.ratio /\ full.left = have /\ full.pos = p.pos
  <2> HIDE DEF full
  <2>1. QED
    BY <1>6
<1>8. n = 0 => Front!InKept(full)
  <2>1. full = [ratio |-> p.ratio, left |-> have, pos |-> <<last, frac>>]
    <3> HIDE DEF full, last, frac
    <3>1. QED
      BY <1>1, <1>6
  <2> HIDE DEF full
  <2>2. /\ Front!InKept(full) <=> /\ have * den < num + den
                                  /\ last * den + frac < num \/ last * den + frac < den
    BY <2>1, KeptIs
  <2> HIDE DEF n, num, den, have, last, frac
  <2>3. QED
    BY ONLY <1>4, <1>5, <2>2, Zenon
<1>9. ASSUME n > 0
      PROVE  /\ o.rest \in Front!Resamplers /\ o.made = s.produced
             /\ o.rest = [ratio |-> p.ratio, left |-> rest, pos |-> <<s.last, s.frac>>]
  <2> DEFINE t == Front!Process(full.ratio[1], full.ratio[2], full.pos[1], full.pos[2], full.left,
                                n)
  <2>1. t = s
    <3> HIDE DEF full, n
    <3>1. QED
      BY ONLY <1>7, Zenon
  <2> HIDE DEF full, n
  <2>2. /\ o.rest \in Front!Resamplers
        /\ full.left > 0 /\ n > 0 =>
             /\ o.made = t.produced
             /\ o.rest = [ratio |-> full.ratio, left |-> full.left - t.consumed,
                          pos |-> <<t.last, t.frac>>]
    BY <1>3, <1>6, FrontOutput
  <2> HIDE DEF t, s, o
  <2>3. QED
    BY <1>2, <1>7, <1>9, <2>1, <2>2
<1> HIDE DEF n, s, o, full, rest
<1>10. ASSUME n > 0 PROVE Front!InKept(o.rest) /\ o.rest.ratio = p.ratio
  <2> DEFINE e == o.rest
  <2>1. e = [ratio |-> p.ratio, left |-> rest, pos |-> <<s.last, s.frac>>]
    BY <1>9, <1>10
  <2> HIDE DEF e
  <2>2. /\ Front!InKept(e) <=> /\ rest * den < num + den
                               /\ s.last * den + s.frac < num \/ s.last * den + s.frac < den
    BY <2>1, KeptIs
  <2>3. e.ratio = p.ratio
    BY <2>1
  <2> HIDE DEF num, den
  <2>4. QED
    BY ONLY <1>5, <1>10, <2>2, <2>3, Zenon DEF e
<1>11. QED
  <2>1. n > 0 => /\ o.rest \in Front!Resamplers /\ o.rest.ratio = p.ratio
                 /\ Front!InKept(o.rest)
                 /\ o.made \in Nat /\ n - o.made <= (p.ratio[2] - 1) \div p.ratio[1]
    <3>1. ASSUME n > 0
          PROVE  o.made \in Nat /\ n - o.made <= (p.ratio[2] - 1) \div p.ratio[1]
      <4>1. o.made = s.produced /\ s.produced \in Nat /\ n - s.produced <= (den - 1) \div num
        <5> HIDE DEF num, den
        <5>1. QED
          BY ONLY <1>5, <1>9, <3>1, Zenon
      <4>2. n - o.made <= (den - 1) \div num
        <5> HIDE DEF num, den
        <5>1. QED
          BY ONLY <4>1, Zenon
      <4>3. QED
        BY ONLY <4>1, <4>2, Zenon
    <3>2. QED
      BY ONLY <1>9, <1>10, <3>1, Zenon
  <2>2. QED
    BY <1>3, <1>6, <1>7, <1>8, <2>1, Zenon DEF n, full, o

----------------------------------------------------------------------------
(* Numbered frames *)

\* The sequence s has the frames numbered from a + 1 to b, in their order.
Numbers(s, a, b) ==
  /\ s \in Seq(Nat) /\ a \in Nat /\ b \in Nat /\ a <= b
  /\ Waiting(s) = (a + 1)..b /\ Increasing(s)

\* The same, entry by entry.
LEMMA NumbersAre ==
  ASSUME NEW s \in Seq(Nat), NEW a \in Nat, NEW b \in Nat, a <= b
  PROVE  Numbers(s, a, b) <=>
           /\ \A i \in 1..Len(s) : s[i] = 0 \/ (s[i] > a /\ s[i] <= b)
           /\ \A f \in (a + 1)..b : \E i \in 1..Len(s) : s[i] = f
           /\ \A i, j \in 1..Len(s) : i < j /\ s[i] # 0 /\ s[j] # 0 => s[i] < s[j]
<1>1. DOMAIN s = 1..Len(s) /\ Len(s) \in Nat /\ \A i \in 1..Len(s) : s[i] \in Nat
  OBVIOUS
<1>2. Increasing(s) <=>
        \A i, j \in 1..Len(s) : i < j /\ s[i] # 0 /\ s[j] # 0 => s[i] < s[j]
  BY <1>1 DEF Increasing
<1>3. Waiting(s) = (a + 1)..b <=>
        /\ \A i \in 1..Len(s) : s[i] = 0 \/ (s[i] > a /\ s[i] <= b)
        /\ \A f \in (a + 1)..b : \E i \in 1..Len(s) : s[i] = f
  <2>1. ASSUME Waiting(s) = (a + 1)..b
        PROVE  /\ \A i \in 1..Len(s) : s[i] = 0 \/ (s[i] > a /\ s[i] <= b)
               /\ \A f \in (a + 1)..b : \E i \in 1..Len(s) : s[i] = f
    <3>1. ASSUME NEW i \in 1..Len(s), s[i] # 0 PROVE s[i] \in (a + 1)..b
      BY <1>1, <2>1, <3>1 DEF Waiting
    <3>2. ASSUME NEW f \in (a + 1)..b PROVE \E i \in 1..Len(s) : s[i] = f
      BY <1>1, <2>1 DEF Waiting
    <3>3. QED
      BY <3>1, <3>2
  <2>2. ASSUME \A i \in 1..Len(s) : s[i] = 0 \/ (s[i] > a /\ s[i] <= b),
               \A f \in (a + 1)..b : \E i \in 1..Len(s) : s[i] = f
        PROVE  Waiting(s) = (a + 1)..b
    <3>1. Waiting(s) \subseteq (a + 1)..b
      BY <1>1, <2>2 DEF Waiting
    <3>2. (a + 1)..b \subseteq Waiting(s)
      <4> SUFFICES ASSUME NEW f \in (a + 1)..b PROVE f \in Waiting(s)
        OBVIOUS
      <4>1. PICK i \in 1..Len(s) : s[i] = f
        BY <2>2
      <4>2. f # 0
        OBVIOUS
      <4>3. QED
        BY <1>1, <4>1, <4>2 DEF Waiting
    <3>3. QED
      BY <3>1, <3>2
  <2>3. QED
    BY <2>1, <2>2
<1>4. QED
  BY <1>2, <1>3 DEF Numbers

\* What was recorded comes behind.
LEMMA Appended ==
  ASSUME NEW s, NEW a, NEW b, Numbers(s, a, b), NEW c \in Nat
  PROVE  Numbers(s \o [i \in 1..c |-> b + i], a, b + c)
<1> DEFINE t == [i \in 1..c |-> b + i]
           u == s \o t
<1>1. s \in Seq(Nat) /\ a \in Nat /\ b \in Nat /\ a <= b
  BY DEF Numbers
<1>2. t \in Seq(Nat) /\ Len(t) = c /\ \A i \in 1..c : t[i] = b + i
  <2>1. \A i \in 1..c : b + i \in Nat
    BY <1>1
  <2>2. QED
    BY <2>1
<1> HIDE DEF t
<1>3. /\ u \in Seq(Nat) /\ Len(u) = Len(s) + c /\ Len(s) \in Nat
      /\ \A i \in 1..Len(s) : u[i] = s[i]
      /\ \A i \in 1..c : u[Len(s) + i] = t[i]
  BY <1>1, <1>2, SMTT(40)
<1>4. /\ \A i \in 1..Len(s) : s[i] = 0 \/ (s[i] > a /\ s[i] <= b)
      /\ \A f \in (a + 1)..b : \E i \in 1..Len(s) : s[i] = f
      /\ \A i, j \in 1..Len(s) : i < j /\ s[i] # 0 /\ s[j] # 0 => s[i] < s[j]
  BY <1>1, NumbersAre
<1>5. \A i \in 1..Len(u) : IF i <= Len(s) THEN u[i] = s[i] /\ i \in 1..Len(s)
                           ELSE u[i] = b + (i - Len(s)) /\ i - Len(s) \in 1..c
  <2> SUFFICES ASSUME NEW i \in 1..Len(u), ~(i <= Len(s))
               PROVE  u[i] = b + (i - Len(s)) /\ i - Len(s) \in 1..c
    BY <1>3
  <2>1. i - Len(s) \in 1..c /\ Len(s) + (i - Len(s)) = i
    BY <1>3
  <2>2. QED
    BY <1>2, <1>3, <2>1
<1> HIDE DEF u
<1>6. \A i \in 1..Len(s) : s[i] \in Nat
  BY <1>1
<1>7. \A i \in 1..Len(u) : u[i] = 0 \/ (u[i] > a /\ u[i] <= b + c)
  <2> SUFFICES ASSUME NEW i \in 1..Len(u) PROVE u[i] = 0 \/ (u[i] > a /\ u[i] <= b + c)
    OBVIOUS
  <2>1. CASE i <= Len(s)
    <3>1. u[i] = s[i] /\ i \in 1..Len(s) /\ s[i] \in Nat
      BY <1>5, <1>6, <2>1
    <3>2. s[i] = 0 \/ (s[i] > a /\ s[i] <= b)
      BY <1>4, <3>1
    <3>3. QED
      BY <1>1, <3>1, <3>2
  <2>2. CASE ~(i <= Len(s))
    <3>1. u[i] = b + (i - Len(s)) /\ i - Len(s) \in 1..c
      BY <1>5, <2>2
    <3>2. QED
      BY <1>1, <3>1
  <2>3. QED
    BY <2>1, <2>2
<1>8. \A f \in (a + 1)..(b + c) : \E i \in 1..Len(u) : u[i] = f
  <2> TAKE f \in (a + 1)..(b + c)
  <2>1. CASE f <= b
    <3>1. PICK i \in 1..Len(s) : s[i] = f
      BY <1>1, <1>4, <2>1
    <3>2. i \in 1..Len(u) /\ u[i] = f
      BY <1>3, <3>1
    <3>3. QED
      BY <3>2
  <2>2. CASE f > b
    <3> DEFINE i == Len(s) + (f - b)
    <3>1. f - b \in 1..c
      BY <1>1, <2>2
    <3>2. i \in 1..Len(u) /\ u[i] = b + (f - b)
      BY <1>2, <1>3, <3>1
    <3>3. u[i] = f
      BY <1>1, <3>2
    <3>4. QED
      BY <3>2, <3>3
  <2>3. QED
    BY <1>1, <2>1, <2>2
<1>9. \A i, j \in 1..Len(u) : i < j /\ u[i] # 0 /\ u[j] # 0 => u[i] < u[j]
  <2> SUFFICES ASSUME NEW i \in 1..Len(u), NEW j \in 1..Len(u), i < j, u[i] # 0, u[j] # 0
               PROVE  u[i] < u[j]
    OBVIOUS
  <2>1. CASE j <= Len(s)
    <3>1. i <= Len(s)
      BY <1>3, <2>1
    <3>2. u[i] = s[i] /\ i \in 1..Len(s) /\ u[j] = s[j] /\ j \in 1..Len(s)
      BY <1>5, <2>1, <3>1
    <3>3. QED
      BY <1>4, <3>2
  <2>2. CASE i <= Len(s) /\ ~(j <= Len(s))
    <3>1. u[i] \in Nat /\ u[i] <= b
      BY <1>3, <1>4, <1>5, <1>6, <2>2
    <3>2. u[j] = b + (j - Len(s)) /\ j - Len(s) \in 1..c
      BY <1>5, <2>2
    <3>3. QED
      BY <1>1, <3>1, <3>2
  <2>3. CASE ~(i <= Len(s))
    <3>1. u[j] = b + (j - Len(s)) /\ u[i] = b + (i - Len(s))
      BY <1>3, <1>5, <2>3
    <3>2. QED
      BY <1>1, <1>3, <3>1
  <2>4. QED
    BY <1>3, <2>1, <2>2, <2>3
<1>10. u \in Seq(Nat) /\ b + c \in Nat /\ a <= b + c
  BY <1>1, <1>3
<1>11. Numbers(u, a, b + c)
  BY <1>1, <1>7, <1>8, <1>9, <1>10, NumbersAre
<1>12. QED
  BY <1>11 DEF u, t

\* Silence has no number.
LEMMA Silenced ==
  ASSUME NEW s, NEW a, NEW b, Numbers(s, a, b), NEW c \in Nat
  PROVE  Numbers(s \o [i \in 1..c |-> 0], a, b)
<1> DEFINE t == [i \in 1..c |-> 0]
           u == s \o t
<1>1. s \in Seq(Nat) /\ a \in Nat /\ b \in Nat /\ a <= b
  BY DEF Numbers
<1>2. t \in Seq(Nat) /\ Len(t) = c /\ \A i \in 1..c : t[i] = 0
  BY <1>1
<1> HIDE DEF t
<1>3. /\ u \in Seq(Nat) /\ Len(u) = Len(s) + c /\ Len(s) \in Nat
      /\ \A i \in 1..Len(s) : u[i] = s[i]
      /\ \A i \in 1..c : u[Len(s) + i] = t[i]
  BY <1>1, <1>2
<1>4. /\ \A i \in 1..Len(s) : s[i] = 0 \/ (s[i] > a /\ s[i] <= b)
      /\ \A f \in (a + 1)..b : \E i \in 1..Len(s) : s[i] = f
      /\ \A i, j \in 1..Len(s) : i < j /\ s[i] # 0 /\ s[j] # 0 => s[i] < s[j]
  BY <1>1, NumbersAre
<1>5. \A i \in 1..Len(u) : IF i <= Len(s) THEN u[i] = s[i] /\ i \in 1..Len(s) ELSE u[i] = 0
  <2> SUFFICES ASSUME NEW i \in 1..Len(u), ~(i <= Len(s)) PROVE u[i] = 0
    BY <1>3
  <2>1. i - Len(s) \in 1..c /\ Len(s) + (i - Len(s)) = i
    BY <1>3
  <2>2. QED
    BY <1>2, <1>3, <2>1
<1> HIDE DEF u
<1>6. /\ \A i \in 1..Len(u) : u[i] = 0 \/ (u[i] > a /\ u[i] <= b)
      /\ \A i, j \in 1..Len(u) : i < j /\ u[i] # 0 /\ u[j] # 0 => u[i] < u[j]
  BY <1>1, <1>3, <1>4, <1>5
<1>7. \A f \in (a + 1)..b : \E i \in 1..Len(u) : u[i] = f
  BY <1>1, <1>3, <1>4, SMTT(40)
<1>8. Numbers(u, a, b)
  BY <1>1, <1>3, <1>6, <1>7, NumbersAre
<1>9. QED
  BY <1>8 DEF u, t

LEMMA PiecesAre ==
  ASSUME NEW s \in Seq(Nat), NEW n \in 0..Len(s)
  PROVE  /\ SubSeq(s, 1, n) \in Seq(Nat) /\ Len(SubSeq(s, 1, n)) = n
         /\ \A i \in 1..n : SubSeq(s, 1, n)[i] = s[i]
         /\ SubSeq(s, n + 1, Len(s)) \in Seq(Nat) /\ Len(SubSeq(s, n + 1, Len(s))) = Len(s) - n
         /\ \A i \in 1..(Len(s) - n) : SubSeq(s, n + 1, Len(s))[i] = s[n + i]
<1>1. Len(s) \in Nat /\ n \in Nat /\ n <= Len(s)
  OBVIOUS
<1>2. /\ SubSeq(s, 1, n) \in Seq(Nat) /\ Len(SubSeq(s, 1, n)) = n
      /\ \A i \in 1..n : SubSeq(s, 1, n)[i] = s[i]
  BY <1>1
<1>3. /\ SubSeq(s, n + 1, Len(s)) \in Seq(Nat) /\ Len(SubSeq(s, n + 1, Len(s))) = Len(s) - n
      /\ \A i \in 1..(Len(s) - n) : SubSeq(s, n + 1, Len(s))[i] = s[n + i]
  BY <1>1
<1>4. QED
  BY <1>2, <1>3

\* The numbers before the entry n are as many as there are frames with a number:
\* they are all that are less than one of them.
LEMMA Counted ==
  ASSUME NEW s, NEW a, NEW b, Numbers(s, a, b), NEW n \in 0..Len(s)
  PROVE  LET m == Numbered(SubSeq(s, 1, n)) IN
         /\ m \in Nat /\ a + m <= b
         /\ \A i \in 1..n : s[i] # 0 => s[i] <= a + m
         /\ \A f \in (a + 1)..(a + m) : \E i \in 1..n : s[i] = f
<1> DEFINE P == {i \in 1..n : s[i] # 0}
           S == {s[i] : i \in P}
           m == Numbered(SubSeq(s, 1, n))
           g == [i \in P |-> s[i]]
<1>1. s \in Seq(Nat) /\ a \in Nat /\ b \in Nat /\ a <= b /\ n \in Nat /\ n <= Len(s)
      /\ Len(s) \in Nat
  BY DEF Numbers
<1>2. /\ \A i \in 1..Len(s) : s[i] = 0 \/ (s[i] > a /\ s[i] <= b)
      /\ \A f \in (a + 1)..b : \E i \in 1..Len(s) : s[i] = f
      /\ \A i, j \in 1..Len(s) : i < j /\ s[i] # 0 /\ s[j] # 0 => s[i] < s[j]
  BY <1>1, NumbersAre
<1>3. \A i \in 1..Len(s) : s[i] \in Nat
  BY <1>1
<1>4. m = Cardinality(P)
  <2>1. DOMAIN SubSeq(s, 1, n) = 1..n /\ \A i \in 1..n : SubSeq(s, 1, n)[i] = s[i]
    BY <1>1, PiecesAre
  <2> DEFINE t == SubSeq(s, 1, n)
  <2> HIDE DEF t
  <2>2. {i \in DOMAIN t : t[i] # 0} = P
    BY <2>1 DEF t
  <2>3. Numbered(t) = Cardinality({i \in DOMAIN t : t[i] # 0})
    BY DEF Numbered
  <2>4. QED
    BY <2>2, <2>3 DEF t
<1> HIDE DEF m
<1>5. IsFiniteSet(P) /\ Cardinality(P) \in Nat
  <2>1. IsFiniteSet(1..n)
    BY <1>1, FS_Interval
  <2>2. P \in SUBSET (1..n)
    OBVIOUS
  <2>3. QED
    BY <2>1, <2>2, FS_Subset, FS_CardinalityType
<1>6. S \subseteq (a + 1)..b
  BY <1>1, <1>2, <1>3
<1>7. IsFiniteSet(S) /\ Cardinality(S) = m
  <2>1. g \in Bijection(P, S)
    <3>1. g \in [P -> S] /\ \A x \in S : \E i \in P : g[i] = x
      OBVIOUS
    <3>2. ASSUME NEW i \in P, NEW j \in P, g[i] = g[j] PROVE i = j
      <4>1. i \in 1..Len(s) /\ j \in 1..Len(s) /\ s[i] # 0 /\ s[j] # 0 /\ s[i] = s[j]
        BY <1>1, <3>2
      <4>2. s[i] \in Nat
        BY <1>3, <4>1
      <4>3. ~(i < j) /\ ~(j < i)
        BY <1>2, <4>1, <4>2
      <4>4. QED
        BY <4>1, <4>3
    <3>3. QED
      BY <3>1, <3>2 DEF Bijection, Injection, Surjection, IsInjective
  <2>2. ExistsBijection(P, S)
    BY <2>1 DEF ExistsBijection
  <2>3. QED
    BY <1>4, <1>5, <2>2, FS_Bijection
<1>8. ASSUME NEW y \in S, NEW x \in (a + 1)..y PROVE x \in S
  <2>1. PICK i \in P : s[i] = y
    OBVIOUS
  <2>2. y \in (a + 1)..b
    BY <1>6
  <2>3. x \in (a + 1)..b
    BY <1>1, <2>2
  <2>4. PICK j \in 1..Len(s) : s[j] = x
    BY <1>2, <2>3
  <2>5. i \in 1..Len(s) /\ s[i] # 0 /\ x # 0
    BY <1>1
  <2>6. ~(i < j)
    <3> SUFFICES ASSUME i < j PROVE FALSE
      OBVIOUS
    <3>1. s[i] < s[j]
      BY <1>2, <2>4, <2>5
    <3>2. y \in Int /\ x \in Int /\ x <= y
      BY <1>1, <2>2
    <3>3. y < x
      BY ONLY <2>1, <2>4, <3>1
    <3>4. QED
      BY ONLY <3>2, <3>3
  <2>7. j \in P
    BY <1>1, <2>4, <2>5, <2>6
  <2>8. QED
    BY <2>4, <2>7
<1> HIDE DEF P, S
<1>9. m \in Nat
  BY <1>4, <1>5
<1>10. S \subseteq (a + 1)..(a + m)
  <2> SUFFICES ASSUME NEW y \in S, y > a + m PROVE FALSE
    BY <1>1, <1>6, <1>9
  <2>1. y \in (a + 1)..b
    BY <1>6
  <2>2. (a + 1)..y \in SUBSET S
    BY <1>8
  <2>3. Cardinality((a + 1)..y) <= m
    BY <1>7, <2>2, FS_Subset
  <2>4. Cardinality((a + 1)..y) = y - (a + 1) + 1
    <3>1. a + 1 \in Int /\ y \in Int /\ ~(a + 1 > y)
      BY <1>1, <2>1
    <3>2. Cardinality((a + 1)..y) = IF a + 1 > y THEN 0 ELSE y - (a + 1) + 1
      BY <3>1, FS_Interval, Zenon
    <3>3. QED
      BY <3>1, <3>2
  <2>5. QED
    BY <1>1, <1>9, <2>1, <2>3, <2>4
<1>11. S = (a + 1)..(a + m)
  <2>1. a + 1 \in Int /\ a + m \in Int
    BY <1>1, <1>9
  <2>2. IsFiniteSet((a + 1)..(a + m))
        /\ Cardinality((a + 1)..(a + m)) = IF a + 1 > a + m THEN 0 ELSE (a + m) - (a + 1) + 1
    BY <2>1, FS_Interval, Zenon
  <2>3. Cardinality((a + 1)..(a + m)) = m
    BY <1>1, <1>9, <2>2
  <2>4. S \in SUBSET ((a + 1)..(a + m))
    BY <1>10
  <2>5. QED
    BY <1>7, <2>2, <2>3, <2>4, FS_Subset
<1>12. a + m <= b
  <2>1. CASE m = 0
    BY <1>1, <2>1
  <2>2. CASE m # 0
    <3>1. a + m \in S
      BY <1>1, <1>9, <1>11, <2>2
    <3>2. QED
      BY <1>1, <1>6, <1>9, <3>1
  <2>3. QED
    BY <2>1, <2>2
<1>13. \A i \in 1..n : s[i] # 0 => s[i] <= a + m
  <2> SUFFICES ASSUME NEW i \in 1..n, s[i] # 0 PROVE s[i] <= a + m
    OBVIOUS
  <2>1. s[i] \in S
    BY DEF S, P
  <2>2. QED
    BY <1>11, <2>1
<1>14. \A f \in (a + 1)..(a + m) : \E i \in 1..n : s[i] = f
  BY <1>11 DEF S, P
<1>15. QED
  BY <1>9, <1>12, <1>13, <1>14 DEF m

\* What is given or dropped first leaves the frames behind it.
LEMMA Popped ==
  ASSUME NEW s, NEW a, NEW b, Numbers(s, a, b), NEW n \in 0..Len(s)
  PROVE  LET m == Numbered(SubSeq(s, 1, n)) IN
         m \in Nat /\ Numbers(SubSeq(s, n + 1, Len(s)), a + m, b)
<1> DEFINE m == Numbered(SubSeq(s, 1, n))
           t == SubSeq(s, n + 1, Len(s))
<1>1. s \in Seq(Nat) /\ a \in Nat /\ b \in Nat /\ a <= b /\ n \in Nat /\ n <= Len(s)
      /\ Len(s) \in Nat
  BY DEF Numbers
<1>2. /\ \A i \in 1..Len(s) : s[i] = 0 \/ (s[i] > a /\ s[i] <= b)
      /\ \A f \in (a + 1)..b : \E i \in 1..Len(s) : s[i] = f
      /\ \A i, j \in 1..Len(s) : i < j /\ s[i] # 0 /\ s[j] # 0 => s[i] < s[j]
  BY <1>1, NumbersAre
<1>3. \A i \in 1..Len(s) : s[i] \in Nat
  BY <1>1
<1>4. /\ m \in Nat /\ a + m <= b
      /\ \A i \in 1..n : s[i] # 0 => s[i] <= a + m
      /\ \A f \in (a + 1)..(a + m) : \E i \in 1..n : s[i] = f
  BY Counted
<1>5. /\ t \in Seq(Nat) /\ Len(t) = Len(s) - n
      /\ \A i \in 1..(Len(s) - n) : t[i] = s[n + i]
  BY <1>1, PiecesAre
<1> HIDE DEF m, t
<1>6. \A i \in 1..Len(t) : n + i \in 1..Len(s) /\ t[i] = s[n + i]
  BY <1>1, <1>5
<1>7. \A i \in 1..Len(t) : t[i] = 0 \/ (t[i] > a + m /\ t[i] <= b)
  <2> SUFFICES ASSUME NEW i \in 1..Len(t), t[i] # 0 PROVE t[i] > a + m /\ t[i] <= b
    OBVIOUS
  <2>1. n + i \in 1..Len(s) /\ t[i] = s[n + i] /\ s[n + i] \in Nat
    BY <1>3, <1>6
  <2>2. s[n + i] > a /\ s[n + i] <= b
    BY <1>2, <2>1
  <2>3. ~(s[n + i] <= a + m)
    <3> SUFFICES ASSUME s[n + i] <= a + m PROVE FALSE
      OBVIOUS
    <3>1. s[n + i] \in (a + 1)..(a + m)
      BY <1>1, <1>4, <2>1, <2>2
    <3>2. PICK j \in 1..n : s[j] = s[n + i]
      BY <1>4, <3>1
    <3>3. j \in 1..Len(s) /\ j < n + i /\ s[j] # 0 /\ s[n + i] # 0
      BY <1>1, <1>5, <2>1, <3>2
    <3>4. s[j] < s[n + i]
      BY <1>2, <2>1, <3>3
    <3>5. QED
      BY <2>1, <3>2, <3>4
  <2>4. QED
    BY <1>1, <1>4, <2>1, <2>2, <2>3
<1>8. \A f \in (a + m + 1)..b : \E i \in 1..Len(t) : t[i] = f
  <2> TAKE f \in (a + m + 1)..b
  <2>1. f \in (a + 1)..b /\ f > a + m /\ f \in Nat
    BY <1>1, <1>4
  <2>2. PICK i \in 1..Len(s) : s[i] = f
    BY <1>2, <2>1
  <2>3. i > n
    BY <1>1, <1>4, <2>1, <2>2
  <2>4. i - n \in 1..Len(t) /\ n + (i - n) = i
    BY <1>1, <1>5, <2>3
  <2>5. t[i - n] = f
    BY <1>5, <2>2, <2>4
  <2>6. QED
    BY <2>4, <2>5
<1>9. \A i, j \in 1..Len(t) : i < j /\ t[i] # 0 /\ t[j] # 0 => t[i] < t[j]
  <2> SUFFICES ASSUME NEW i \in 1..Len(t), NEW j \in 1..Len(t), i < j, t[i] # 0, t[j] # 0
               PROVE  t[i] < t[j]
    OBVIOUS
  <2>1. n + i \in 1..Len(s) /\ t[i] = s[n + i] /\ n + j \in 1..Len(s) /\ t[j] = s[n + j]
    BY <1>6
  <2>2. n + i < n + j
    BY <1>1
  <2>3. QED
    BY <1>2, <2>1, <2>2
<1>10. a + m \in Nat /\ a + m <= b
  BY <1>1, <1>4
<1>11. Numbers(t, a + m, b)
  BY <1>1, <1>5, <1>7, <1>8, <1>9, <1>10, NumbersAre
<1>12. QED
  BY <1>4, <1>11 DEF m, t

----------------------------------------------------------------------------
(* The front end: the numbered frames *)

\* Cardinality, and what is defined with it, is the same in the instance.
LEMMA FrontNumbered == ASSUME NEW s PROVE Front!Numbered(s) = Numbered(s)
  BY DEF Front!Numbered, Numbered, Front!Cardinality, Cardinality

LEMMA FrontPopped ==
  ASSUME NEW s, NEW a, NEW b, Numbers(s, a, b), NEW n \in 0..Len(s)
  PROVE  LET m == Front!Numbered(SubSeq(s, 1, n)) IN
         m \in Nat /\ Numbers(Front!From(s, n), a + m, b)
BY Popped, FrontNumbered DEF Front!From

LEMMA FrontSilenced ==
  ASSUME NEW s, NEW a, NEW b, Numbers(s, a, b), NEW c \in Nat
  PROVE  Numbers(s \o Front!Silence(c), a, b)
BY Silenced DEF Front!Silence

----------------------------------------------------------------------------
(* The front end: its invariant *)

\* The invariant in two halves: the processors, and the numbered frames.
FrontPlaces ==
  /\ v1 \in FrontKinds /\ v5 \in BOOLEAN
  /\ v2 \in (IF v1 \in Front!Resampled THEN Front!Resamplers ELSE Front!DelayLines)
  /\ v3 \in (IF v1 \in Front!Replayed THEN Front!Resamplers ELSE Front!DelayLines)
  /\ v1 = "input" => Front!InKept(v2)
  /\ ~v5 /\ v1 \in Front!Replayed => Front!OutKept(v3)
  /\ ~v5 /\ v1 = "delayed output" => v3.left = Front!LatencyOf(v2.ratio)

FrontNumbers ==
  /\ v6 \in Front!Frames /\ v7 \in [given : Nat, dropped : Nat]
  /\ Numbers(v4, v7.given + v7.dropped, v6)

LEMMA FrontInvariant ==
  ASSUME ComponentsAssumption PROVE Front!IInv <=> FrontPlaces /\ FrontNumbers
<1>1. ASSUME v6 \in Front!Frames, v7 \in [given : Nat, dropped : Nat]
      PROVE  v4 \in Seq(Front!Frames) /\ Front!InputInOrder
               <=> Numbers(v4, v7.given + v7.dropped, v6)
  <2>1. v7.given + v7.dropped \in Nat /\ v6 \in Nat
    BY <1>1, FrontConstants DEF Front!Frames
  <2>2. Front!InputInOrder <=>
          /\ v7.given + v7.dropped <= v6
          /\ Waiting(v4) = (v7.given + v7.dropped + 1)..v6 /\ Increasing(v4)
    BY DEF Front!InputInOrder, Front!Waiting, Waiting, Front!Increasing, Increasing
  <2>3. ASSUME v4 \in Seq(Front!Frames) PROVE v4 \in Seq(Nat)
    BY <2>3, FrontConstants DEF Front!Frames
  <2>4. ASSUME Numbers(v4, v7.given + v7.dropped, v6) PROVE v4 \in Seq(Front!Frames)
    <3>1. v4 \in Seq(Nat) /\ v7.given + v7.dropped <= v6
      BY <2>4 DEF Numbers
    <3>2. \A i \in 1..Len(v4) : v4[i] = 0 \/ (v4[i] > v7.given + v7.dropped /\ v4[i] <= v6)
      BY <2>1, <2>4, <3>1, NumbersAre
    <3>3. \A i \in 1..Len(v4) : v4[i] \in 0..v6
      BY <2>1, <3>1, <3>2
    <3>4. \A i \in 1..Len(v4) : v4[i] \in Front!Frames
      BY <1>1, <2>1, <3>3, FrontConstants DEF Front!Frames
    <3>5. QED
      BY <3>1, <3>4
  <2>5. QED
    BY <2>1, <2>2, <2>3, <2>4 DEF Numbers
<1>2. QED
  BY <1>1, Zenon DEF Front!IInv, FrontPlaces, FrontNumbers

\* What the invariant means for the last call.
LEMMA FrontSafe ==
  ASSUME Front!IInv, Front!ExactOutput, Front!ExactInput PROVE Front!FillIsRight
<1>1. Front!InputInOrder
  BY DEF Front!IInv
<1>2. ASSUME ~v5
      PROVE  IF v1 = "delayed output" THEN v3.left = Front!LatencyOf(v2.ratio)
             ELSE Front!IsLine(v3) \/ v3.left * v3.ratio[1] < v3.ratio[1] + v3.ratio[2]
  <2>1. CASE v1 = "delayed output"
    BY <1>2, <2>1 DEF Front!IInv
  <2>2. CASE v1 # "delayed output" /\ v1 \in Front!Replayed
    BY <1>2, <2>2, Zenon DEF Front!IInv, Front!OutKept
  <2>3. CASE ~(v1 \in Front!Replayed) /\ v1 # "delayed output"
    <3>1. v3 \in Front!DelayLines
      BY <2>3 DEF Front!IInv
    <3>2. QED
      BY <2>3, <3>1, LineIs
  <2>4. QED
    BY <2>1, <2>2, <2>3
<1>3. v1 = "input" => v2.left * v2.ratio[2] < v2.ratio[1] + v2.ratio[2]
  BY Zenon DEF Front!IInv, Front!InKept
<1>4. Front!Backlog
  BY <1>2, <1>3, Zenon DEF Front!Backlog
<1>5. QED
  BY <1>1, <1>4 DEF Front!FillIsRight

\* What is popped was given to the callback, what is dropped is counted.
LEMMA FrontKeepRest ==
  ASSUME ComponentsAssumption, NEW full, NEW used, NEW given, NEW b,
         v7 \in [given : Nat, dropped : Nat], Numbers(full, v7.given + v7.dropped, b),
         used \in 0..Len(full),
         Front!Numbered(given) = Front!Numbered(SubSeq(full, 1, used)),
         Front!KeepRest(full, used, given)
  PROVE  v7' \in [given : Nat, dropped : Nat] /\ Numbers(v4', v7'.given + v7'.dropped, b)
<1> DEFINE rest == Front!From(full, used)
           s == Front!Surplus(rest)
           a == v7.given + v7.dropped
           m == Front!Numbered(SubSeq(full, 1, used))
           k == Front!Numbered(SubSeq(rest, 1, s))
<1>1. v7.given \in Nat /\ v7.dropped \in Nat /\ a \in Nat
  OBVIOUS
<1>2. m \in Nat /\ Numbers(rest, a + m, b)
  BY FrontPopped
<1> HIDE DEF rest, a, m
<1>3. rest \in Seq(Nat) /\ Len(rest) \in Nat
  BY <1>2 DEF Numbers
<1>4. s \in 0..Len(rest)
  BY <1>3, FrontConstants DEF Front!Surplus
<1>5. k \in Nat /\ Numbers(Front!From(rest, s), a + m + k, b)
  <2> HIDE DEF s
  <2>1. QED
    BY <1>2, <1>4, FrontPopped
<1>6. v4' = Front!From(rest, s) /\ v7' = [given |-> v7.given + m, dropped |-> v7.dropped + k]
  BY DEF Front!KeepRest, rest, m
<1> HIDE DEF s, k
<1>7. v7' \in [given : Nat, dropped : Nat] /\ v7'.given + v7'.dropped = a + m + k
  <2>1. v7.given + m \in Nat /\ v7.dropped + k \in Nat
        /\ (v7.given + m) + (v7.dropped + k) = a + m + k
    BY <1>1, <1>2, <1>5 DEF a
  <2>2. QED
    BY <1>6, <2>1
<1>8. QED
  BY <1>5, <1>6, <1>7

\* Nothing is popped of nothing.
LEMMA NothingGiven ==
  ASSUME NEW s \in Seq(Nat)
  PROVE  Front!Numbered(<<>>) = Front!Numbered(SubSeq(s, 1, 0)) /\ 0 \in 0..Len(s)
<1>1. SubSeq(s, 1, 0) = <<>>
  OBVIOUS
<1>2. Len(s) \in Nat
  OBVIOUS
<1>3. 0 \in 0..Len(s)
  BY <1>2
<1>4. QED
  BY <1>1, <1>3

\* passthrough_resampler::fill (of input).
LEMMA FrontPass ==
  ASSUME ComponentsAssumption, FrontNumbers, Front!Pass
  PROVE  /\ FrontNumbers' /\ UNCHANGED <<v1, v2, v3, v5>>
         /\ v1 = "pass"
<1>1. PICK count \in 0..MaxGive, frames \in 1..MaxGive :
        LET all == v4 \o Front!Recorded(count)
            full == all \o Front!Silence(IF Len(all) < frames THEN frames - Len(all) ELSE 0)
        IN /\ v6 + count <= MaxRecorded
           /\ Front!KeepRest(full, Front!Popped(all, frames), SubSeq(full, 1, frames))
           /\ v6' = v6 + count
  BY DEF Front!Pass
<1> DEFINE all == v4 \o Front!Recorded(count)
           more == IF Len(all) < frames THEN frames - Len(all) ELSE 0
           full == all \o Front!Silence(more)
           used == Front!Popped(all, frames)
           a == v7.given + v7.dropped
           b == v6 + count
<1>2. /\ v6 \in Nat /\ v7 \in [given : Nat, dropped : Nat] /\ Numbers(v4, a, v6)
      /\ count \in Nat /\ frames \in Nat /\ MaxRecorded \in Nat
  BY FrontConstants DEF FrontNumbers, Front!Frames
<1>3. b <= MaxRecorded /\ v6' = b
  BY <1>1
<1>4. Numbers(all, a, b)
  BY <1>2, <1>3, Appended DEF Front!Recorded
<1>5. all \in Seq(Nat) /\ Len(all) \in Nat
  <2> HIDE DEF all
  <2>1. QED
    BY <1>4 DEF Numbers
<1>6. Front!KeepRest(full, used, SubSeq(full, 1, frames))
  BY <1>1
<1> HIDE DEF all, b, a
<1>7. more \in Nat /\ more = IF Len(all) < frames THEN frames - Len(all) ELSE 0
  BY <1>2, <1>5
<1> HIDE DEF more
<1>8. Numbers(full, a, b) /\ full \in Seq(Nat)
  <2>1. Numbers(full, a, b)
    BY <1>4, <1>7, FrontSilenced
  <2> HIDE DEF full
  <2>2. QED
    BY <2>1 DEF Numbers
<1>9. /\ Len(full) = Len(all) + more
      /\ \A i \in 1..Len(full) : i <= Len(all) \/ full[i] = 0
  <2> DEFINE t == Front!Silence(more)
  <2>1. t \in Seq(Nat) /\ Len(t) = more /\ \A i \in 1..more : t[i] = 0
    BY <1>7 DEF Front!Silence
  <2>2. full = all \o t
    OBVIOUS
  <2> HIDE DEF t, full
  <2>3. /\ Len(all \o t) = Len(all) + more
        /\ \A i \in 1..more : (all \o t)[Len(all) + i] = t[i]
    BY <1>5, <1>7, <2>1
  <2>4. /\ Len(full) = Len(all) + more
        /\ \A i \in 1..more : full[Len(all) + i] = t[i]
    BY <2>3, <2>2
  <2>5. ASSUME NEW i \in 1..Len(full), ~(i <= Len(all)) PROVE full[i] = 0
    <3>1. i - Len(all) \in 1..more /\ Len(all) + (i - Len(all)) = i
      BY <1>5, <1>7, <2>4, <2>5
    <3>2. QED
      BY <2>1, <2>4, <3>1
  <2>6. QED
    BY <2>4, <2>5
<1>10. used = IF Len(all) < frames THEN Len(all) ELSE frames
  BY DEF Front!Popped, Front!Least
<1> HIDE DEF full, used
<1>11. used \in 0..Len(full) /\ frames \in 0..Len(full)
  BY <1>2, <1>5, <1>7, <1>9, <1>10
<1>12. Front!Numbered(SubSeq(full, 1, frames)) = Front!Numbered(SubSeq(full, 1, used))
  <2> DEFINE s == SubSeq(full, 1, frames)
             t == SubSeq(full, 1, used)
  <2>1. /\ DOMAIN s = 1..frames /\ \A i \in 1..frames : s[i] = full[i]
        /\ DOMAIN t = 1..used /\ \A i \in 1..used : t[i] = full[i]
    <3>1. /\ s \in Seq(Nat) /\ Len(s) = frames /\ \A i \in 1..frames : s[i] = full[i]
          /\ t \in Seq(Nat) /\ Len(t) = used /\ \A i \in 1..used : t[i] = full[i]
      BY <1>8, <1>11, PiecesAre
    <3> HIDE DEF s, t
    <3>2. QED
      BY <3>1
  <2> HIDE DEF s, t
  <2>2. {i \in DOMAIN s : s[i] # 0} = {i \in DOMAIN t : t[i] # 0}
    <3>1. ASSUME NEW i \in 1..frames, full[i] # 0 PROVE i \in 1..used
      BY <1>2, <1>5, <1>9, <1>10, <1>11, <3>1
    <3>2. 1..used \subseteq 1..frames
      BY <1>2, <1>5, <1>10
    <3>3. QED
      BY <2>1, <3>1, <3>2
  <2>3. Front!Numbered(s) = Front!Numbered(t)
    BY <2>2, Zenon DEF Front!Numbered
  <2>4. QED
    BY <2>3 DEF s, t
<1>13. v7' \in [given : Nat, dropped : Nat] /\ Numbers(v4', v7'.given + v7'.dropped, b)
  BY <1>2, <1>6, <1>8, <1>11, <1>12, FrontKeepRest DEF a
<1>14. b \in Front!Frames
  BY <1>2, <1>3 DEF Front!Frames, b
<1>15. FrontNumbers'
  BY <1>3, <1>13, <1>14 DEF FrontNumbers, Front!Frames
<1>16. QED
  BY <1>15 DEF Front!Pass

\* delay_line::output, of as much as there is.
LEMMA FrontDelayed ==
  ASSUME ComponentsAssumption, FrontNumbers, ~Starved, NEW count \in Nat, NEW n \in Nat,
         NEW error \in BOOLEAN, Front!Delayed(count, n, error)
  PROVE  FrontNumbers' /\ v2' = v2
<1> DEFINE all == v4 \o Front!Recorded(count)
           used == IF Len(all) >= n THEN n ELSE 0
           given == SubSeq(all, 1, Front!Least(Len(all), n))
           a == v7.given + v7.dropped
           b == v6 + count
<1>1. /\ v6 + count <= MaxRecorded /\ Len(all) >= n /\ v6' = b /\ v2' = v2
      /\ IF error THEN /\ v4' = Front!From(all, used)
                       /\ v7' = [v7 EXCEPT !.given = @ + Front!Numbered(given)]
                  ELSE Front!KeepRest(all, used, given)
  BY DEF Front!Delayed
<1>2. /\ v6 \in Nat /\ v7 \in [given : Nat, dropped : Nat] /\ Numbers(v4, a, v6)
      /\ MaxRecorded \in Nat
  BY FrontConstants DEF FrontNumbers, Front!Frames
<1>3. b <= MaxRecorded
  BY <1>1
<1>4. Numbers(all, a, b)
  BY <1>2, <1>3, Appended DEF Front!Recorded
<1> HIDE DEF all, a, b
<1>5. all \in Seq(Nat) /\ Len(all) \in Nat
  BY <1>4 DEF Numbers
<1>6. used = n /\ n \in 0..Len(all) /\ given = SubSeq(all, 1, n)
  <2>1. Front!Least(Len(all), n) = n
    BY <1>1, <1>5 DEF Front!Least
  <2>2. QED
    BY <1>1, <1>5, <2>1
<1> HIDE DEF used, given
<1>7. v7' \in [given : Nat, dropped : Nat] /\ Numbers(v4', v7'.given + v7'.dropped, b)
  <2>1. CASE error
    <3> DEFINE m == Front!Numbered(SubSeq(all, 1, n))
    <3>1. m \in Nat /\ Numbers(Front!From(all, n), a + m, b)
      BY <1>4, <1>6, FrontPopped
    <3> HIDE DEF m
    <3>2. v4' = Front!From(all, n) /\ v7' = [v7 EXCEPT !.given = @ + m]
      BY <1>1, <1>6, <2>1 DEF m
    <3>3. v7' \in [given : Nat, dropped : Nat] /\ v7'.given + v7'.dropped = a + m
      <4>1. v7'.given = v7.given + m /\ v7'.dropped = v7.dropped
            /\ v7.given \in Nat /\ v7.dropped \in Nat
        BY <1>2, <3>2
      <4>2. v7' \in [given : Nat, dropped : Nat]
        BY <1>2, <3>1, <3>2
      <4>3. (v7.given + m) + v7.dropped = (v7.given + v7.dropped) + m
        BY <3>1, <4>1
      <4>4. QED
        BY <4>1, <4>2, <4>3 DEF a
    <3>4. QED
      BY <3>1, <3>2, <3>3
  <2>2. CASE ~error
    <3>1. Front!KeepRest(all, n, given)
      BY <1>1, <1>6, <2>2
    <3>2. QED
      BY <1>2, <1>4, <1>6, <3>1, FrontKeepRest DEF a
  <2>3. QED
    BY <2>1, <2>2
<1>8. b \in Front!Frames
  BY <1>2, <1>3 DEF Front!Frames, b
<1>9. FrontNumbers'
  BY <1>1, <1>7, <1>8 DEF FrontNumbers, Front!Frames
<1>10. QED
  BY <1>1, <1>9

\* The output processor, after the callback was asked for what it needs.
LEMMA FrontPlay ==
  ASSUME ComponentsAssumption, Front!KeepsEnough, FrontPlaces, ~v5,
         v1 \in {"output", "both"} \cup Front!Lines, NEW frames \in Nat, frames > 0,
         NEW got \in -1..Front!Needed(v3, frames), NEW made, NEW trim \in BOOLEAN,
         Front!Play(frames, Front!Needed(v3, frames), got, made, trim)
  PROVE  /\ v5' \in BOOLEAN
         /\ v3' \in (IF v1 \in Front!Replayed THEN Front!Resamplers ELSE Front!DelayLines)
         /\ ~v5' /\ v1 \in Front!Replayed => Front!OutKept(v3')
         /\ ~v5' /\ v1 = "delayed output" => v3'.left = v3.left
         /\ ~v5' => v8'.result = v8'.needed
<1> DEFINE n == Front!Needed(v3, frames)
           full == [v3 EXCEPT !.left = @ + got]
           o == Front!Output(full, frames)
<1>1. CASE got < 0
  <2>1. v5' = TRUE /\ v3' = v3
    BY <1>1 DEF Front!Play
  <2>2. QED
    BY <2>1 DEF FrontPlaces
<1>2. CASE ~(got < 0)
  <2>1. /\ v5' = (got < n) /\ v3' = (IF trim THEN Front!Dropped(o.rest) ELSE o.rest)
        /\ v8' = [needed |-> frames, asked |-> n, got |-> got, made |-> made, result |-> o.made]
    BY <1>2, Zenon DEF Front!Play
  <2>2. v8'.result = o.made /\ v8'.needed = frames
    <3> HIDE DEF o, n
    <3>1. QED
      BY <2>1
  <2>3. v5' \in BOOLEAN /\ (~v5' => ~(got < n))
    <3> HIDE DEF n, o
    <3>1. (got < n) \in BOOLEAN
      BY ONLY SMT
    <3>2. QED
      BY ONLY <2>1, <3>1, Zenon
  <2>4. CASE v1 \in Front!Replayed
    <3>1. v3 \in Front!Resamplers /\ Front!OutKept(v3)
      BY <2>4 DEF FrontPlaces
    <3>2. /\ n \in Nat
          /\ LET f == [v3 EXCEPT !.left = @ + n]
                 q == Front!Output(f, frames) IN
             /\ q.made = frames /\ Front!OutKept(q.rest) /\ Front!Dropped(q.rest) = q.rest
      BY <3>1, FrontPlays
    <3> HIDE DEF n
    <3>3. got \in Nat /\ got <= n
      BY <1>2, <3>2 DEF n
    <3>4. full \in Front!Resamplers
      BY <3>1, <3>3, ResamplerFed
    <3>5. got = n => o.made = frames /\ Front!OutKept(o.rest) /\ Front!Dropped(o.rest) = o.rest
      BY <3>2
    <3> HIDE DEF full
    <3>6. o.rest \in Front!Resamplers
      BY <3>4, FrontOutput
    <3> HIDE DEF o
    <3>7. Front!Dropped(o.rest) \in Front!Resamplers
      BY <3>6, ResamplerDropped
    <3>8. v3' \in Front!Resamplers
      BY <2>1, <3>6, <3>7
    <3>9. v5' \in BOOLEAN /\ (~v5' => got = n)
      <4>1. ~(got < n) => got = n
        BY <3>2, <3>3
      <4>2. QED
        BY <2>3, <4>1, Zenon
    <3>10. ~v5' => v3' = o.rest /\ Front!OutKept(o.rest) /\ o.made = frames
      BY <2>1, <3>5, <3>9
    <3>11. v1 # "delayed output"
      BY <2>4 DEF Front!Replayed
    <3>12. QED
      BY <2>2, <2>4, <3>8, <3>9, <3>10, <3>11
  <2>5. CASE v1 \notin Front!Replayed
    <3>1. v1 = "delayed output" /\ v3 \in Front!DelayLines /\ v2 \in Front!Resamplers
          /\ v3.left = Front!LatencyOf(v2.ratio)
      BY <2>5 DEF FrontPlaces, Front!Lines, Front!Replayed, Front!Resampled
    <3>2. n = frames /\ v3.left \in Nat
      BY <3>1, LineIs DEF Front!Needed
    <3>3. v3.left <= Keep
      BY <3>1, ResamplerIs DEF Front!KeepsEnough
    <3> HIDE DEF n
    <3>4. got \in Nat /\ got <= n
      BY <1>2, <3>2 DEF n
    <3>5. full \in Front!DelayLines /\ full.left = v3.left + got
      BY <3>1, <3>4, LineFed
    <3> HIDE DEF full
    <3> DEFINE there == IF full.left < frames THEN full.left ELSE frames
    <3>6. o.made = there /\ o.rest \in Front!DelayLines /\ o.rest.left = full.left - there
      BY <3>5, LineOutput
    <3> HIDE DEF o
    <3>7. /\ Front!Dropped(o.rest) \in Front!DelayLines
          /\ o.rest.left <= Keep => Front!Dropped(o.rest).left = o.rest.left
      BY <3>6, LineDropped
    <3>8. v3' \in Front!DelayLines
      BY <2>1, <3>6, <3>7
    <3>9. v5' \in BOOLEAN /\ (~v5' => got = n)
      <4>1. ~(got < n) => got = n
        BY <3>2, <3>4
      <4>2. QED
        BY <2>3, <4>1, Zenon
    <3>10. got = n => o.made = frames /\ o.rest.left = v3.left
      BY <3>2, <3>4, <3>5, <3>6
    <3>11. ~v5' => o.made = frames /\ v3'.left = v3.left
      BY <2>1, <3>3, <3>7, <3>9, <3>10
    <3>12. QED
      BY <2>2, <2>5, <3>8, <3>9, <3>11
  <2>6. QED
    BY <2>4, <2>5
<1>3. QED
  BY <1>1, <1>2

\* The invariant, and what it needs of the last call.
FrontGood ==
  FrontPlaces /\ FrontNumbers /\ Front!ExactOutput /\ Front!ExactInput

LEMMA FrontPlacesStay ==
  ASSUME FrontPlaces, UNCHANGED <<v1, v2, v3, v5>> PROVE FrontPlaces'
BY DEF FrontPlaces, Front!InKept, Front!OutKept, Front!Place, Front!LatencyOf

LEMMA FrontNumbersStay ==
  ASSUME FrontNumbers, UNCHANGED <<v4, v6, v7>> PROVE FrontNumbers'
BY DEF FrontNumbers

\* A call that asks the callback for nothing.
LEMMA FrontExactly ==
  ASSUME ComponentsAssumption, NEW p \in Front!Resamplers
  PROVE  0 <= (p.ratio[2] - 1) \div p.ratio[1]
<1> DEFINE num == p.ratio[1]
           m == p.ratio[2] - 1
<1>1. num \in Nat /\ num > 0 /\ m \in Nat
  BY ResamplerIs
<1>2. m \div num \in Nat
  <2> HIDE DEF num, m
  <2>1. QED
    BY ONLY <1>1, Quotient
<1>3. QED
  BY <1>2

LEMMA FrontPassGood ==
  ASSUME ComponentsAssumption, FrontGood, Front!Pass \/ Front!PassNoInput PROVE FrontGood'
<1>1. v1' = "pass" /\ UNCHANGED <<v1, v2, v3, v5>> /\ FrontNumbers'
  <2>1. CASE Front!Pass
    <3>1. FrontNumbers' /\ UNCHANGED <<v1, v2, v3, v5>> /\ v1 = "pass"
      BY <2>1, FrontPass, Zenon DEF FrontGood
    <3>2. QED
      BY <3>1
  <2>2. CASE Front!PassNoInput
    <3>1. v1 = "pass" /\ UNCHANGED <<v1, v2, v3, v4, v5, v6, v7>>
      BY <2>2 DEF Front!PassNoInput
    <3>2. FrontNumbers'
      BY <3>1, FrontNumbersStay DEF FrontGood
    <3>3. QED
      BY <3>1, <3>2
  <2>3. QED
    BY <2>1, <2>2
<1>2. FrontPlaces'
  BY <1>1, FrontPlacesStay DEF FrontGood
<1>3. Front!ExactOutput' /\ Front!ExactInput'
  BY <1>1 DEF Front!ExactOutput, Front!ExactInput
<1>4. QED
  BY <1>1, <1>2, <1>3 DEF FrontGood

LEMMA FrontInputGood ==
  ASSUME ComponentsAssumption, FrontGood, Front!InputOnly PROVE FrontGood'
<1>1. PICK count \in 1..MaxGive :
        LET n == Front!OutputFor(v2, count)
            full == [v2 EXCEPT !.left = @ + count]
            o == Front!Output(full, n)
        IN IF n = 0
           THEN v2' = full /\ v8'.asked = 0 /\ v8'.made = 0
           ELSE v2' = o.rest /\ v8'.asked = n /\ v8'.made = o.made
  <2>1. PICK count \in 1..MaxGive :
          LET n == Front!OutputFor(v2, count)
              full == [v2 EXCEPT !.left = @ + count]
              o == Front!Output(full, n)
          IN IF n = 0
             THEN /\ v2' = full
                  /\ v8' = [needed |-> count, asked |-> 0, got |-> 0, made |-> 0, result |-> count]
             ELSE /\ v2' = o.rest
                  /\ \E got \in -1..n :
                       v8' = [needed |-> o.used, asked |-> n, got |-> got, made |-> o.made,
                              result |-> IF got = n THEN o.used
                                         ELSE IF got = -1 /\ n = 1 THEN -o.used ELSE 0]
    BY Zenon DEF Front!InputOnly
  <2> DEFINE n == Front!OutputFor(v2, count)
             full == [v2 EXCEPT !.left = @ + count]
             o == Front!Output(full, n)
  <2>2. CASE n = 0
    <3>1. v2' = full
          /\ v8' = [needed |-> count, asked |-> 0, got |-> 0, made |-> 0, result |-> count]
      BY <2>1, <2>2, Zenon
    <3>2. v2' = full /\ v8'.asked = 0 /\ v8'.made = 0
      <4> HIDE DEF full
      <4>1. QED
        BY <3>1
    <3>3. QED
      BY <2>2, <3>2, Zenon
  <2>3. CASE n # 0
    <3>1. /\ v2' = o.rest
          /\ \E got \in -1..n :
               v8' = [needed |-> o.used, asked |-> n, got |-> got, made |-> o.made,
                      result |-> IF got = n THEN o.used
                                 ELSE IF got = -1 /\ n = 1 THEN -o.used ELSE 0]
      BY <2>1, <2>3, Zenon
    <3>2. v2' = o.rest /\ v8'.asked = n /\ v8'.made = o.made
      <4> HIDE DEF o, n
      <4>1. QED
        BY <3>1
    <3>3. QED
      BY <2>3, <3>2, Zenon
  <2>4. QED
    BY <2>2, <2>3, Zenon
<1> DEFINE n == Front!OutputFor(v2, count)
           full == [v2 EXCEPT !.left = @ + count]
           o == Front!Output(full, n)
           most == (v2.ratio[2] - 1) \div v2.ratio[1]
<1>2. v1 = "input" /\ UNCHANGED <<v1, v3, v4, v5, v6, v7>>
  BY DEF Front!InputOnly
<1>3. v2 \in Front!Resamplers /\ Front!InKept(v2)
  BY <1>2 DEF FrontGood, FrontPlaces, Front!Resampled
<1>4. count \in Nat /\ count > 0
  BY FrontConstants
<1>5. /\ n \in Nat /\ full \in Front!Resamplers /\ full.ratio = v2.ratio
      /\ n = 0 => Front!InKept(full)
      /\ n > 0 => /\ o.rest \in Front!Resamplers /\ o.rest.ratio = v2.ratio
                  /\ Front!InKept(o.rest)
                  /\ o.made \in Nat /\ n - o.made <= most
  BY <1>3, <1>4, FrontTakes, Zenon
<1>6. 0 <= most
  BY <1>3, FrontExactly
<1>7. /\ v2' \in Front!Resamplers /\ v2'.ratio = v2.ratio /\ Front!InKept(v2')
      /\ v8'.asked - v8'.made <= most
  <2>1. CASE n = 0
    <3>1. v2' = full /\ v8'.asked = 0 /\ v8'.made = 0
      BY <1>1, <2>1, Zenon
    <3> HIDE DEF full, n, o, most
    <3>2. QED
      BY <1>5, <1>6, <2>1, <3>1
  <2>2. CASE n # 0
    <3>1. v2' = o.rest /\ v8'.asked = n /\ v8'.made = o.made
      BY <1>1, <2>2, Zenon
    <3> HIDE DEF full, n, o, most
    <3>2. n > 0
      BY <1>5, <2>2
    <3>3. QED
      BY <1>5, <3>1, <3>2
  <2>3. QED
    BY <2>1, <2>2
<1>8. Front!ExactInput' /\ Front!ExactOutput'
  <2>1. Front!ExactInput'
    BY <1>7 DEF Front!ExactInput
  <2>2. Front!ExactOutput'
    BY <1>2 DEF Front!ExactOutput
  <2>3. QED
    BY <2>1, <2>2
<1>9. FrontPlaces'
  <2> HIDE DEF n, full, o, most
  <2>1. v1' = "input" /\ v1' \in Front!Resampled /\ ~(v1' \in Front!Replayed)
    BY <1>2 DEF Front!Resampled, Front!Replayed
  <2>2. v1' \in FrontKinds /\ v5' \in BOOLEAN /\ v3' \in Front!DelayLines
    BY <1>2, <2>1, Zenon DEF FrontGood, FrontPlaces
  <2>3. QED
    BY <1>7, <2>1, <2>2 DEF FrontPlaces
<1>10. FrontNumbers'
  BY <1>2, FrontNumbersStay DEF FrontGood
<1>11. QED
  BY <1>8, <1>9, <1>10 DEF FrontGood

\* What is needed is a number of frames.
LEMMA FrontNeeds ==
  ASSUME ComponentsAssumption, Front!KeepsEnough, FrontPlaces, ~v5,
         v1 \in {"output", "both"} \cup Front!Lines, NEW frames \in Nat, frames > 0
  PROVE  Front!Needed(v3, frames) \in Nat
<1>1. CASE v1 \in Front!Replayed
  <2>1. v3 \in Front!Resamplers /\ Front!OutKept(v3)
    BY <1>1 DEF FrontPlaces
  <2>2. QED
    BY <2>1, FrontPlays
<1>2. CASE v1 \notin Front!Replayed
  <2>1. v3 \in Front!DelayLines
    BY <1>2 DEF FrontPlaces
  <2>2. QED
    BY <2>1, LineIs DEF Front!Needed
<1>3. QED
  BY <1>1, <1>2

\* The invariant from what Play leaves of the output and the rest of a call of the
\* input and the buffer.
LEMMA FrontPlayed ==
  ASSUME FrontPlaces, v1 \in {"output", "both"} \cup Front!Lines, v1' = v1,
         v2' \in (IF v1 \in Front!Resampled THEN Front!Resamplers ELSE Front!DelayLines),
         v2'.ratio = v2.ratio, ~v5,
         v5' \in BOOLEAN,
         v3' \in (IF v1 \in Front!Replayed THEN Front!Resamplers ELSE Front!DelayLines),
         ~v5' /\ v1 \in Front!Replayed => Front!OutKept(v3'),
         ~v5' /\ v1 = "delayed output" => v3'.left = v3.left,
         ~v5' => v8'.result = v8'.needed, FrontNumbers'
  PROVE  FrontGood'
<1>1. v1' # "input"
  BY DEF Front!Lines
<1>2. ~v5' /\ v1' = "delayed output" => v3'.left = Front!LatencyOf(v2'.ratio)
  BY Zenon DEF FrontPlaces
<1>3. ~v5' /\ v1' \in Front!Replayed => (Front!OutKept(v3))'
  <2>1. (Front!OutKept(v3))' <=> Front!OutKept(v3')
    BY DEF Front!OutKept, Front!Place
  <2>2. QED
    BY <2>1
<1>4. (v1 = "delayed output" => v3.left = Front!LatencyOf(v2.ratio))'
        <=> (v1' = "delayed output" => v3'.left = Front!LatencyOf(v2'.ratio))
  BY DEF Front!LatencyOf
<1>5. v1' \in FrontKinds
  BY DEF FrontPlaces
<1>6. FrontPlaces'
  BY <1>1, <1>2, <1>3, <1>4, <1>5 DEF FrontPlaces
<1>7. Front!ExactOutput' /\ Front!ExactInput'
  BY <1>1 DEF Front!ExactOutput, Front!ExactInput
<1>8. QED
  BY <1>6, <1>7 DEF FrontGood

LEMMA FrontOutputGood ==
  ASSUME ComponentsAssumption, Front!KeepsEnough, FrontGood, Front!OutputOnly PROVE FrontGood'
<1>1. PICK frames \in 1..MaxGive :
        \E got \in -1..Front!Needed(v3, frames) :
          Front!Play(frames, Front!Needed(v3, frames), got, 0, FALSE)
  BY Zenon DEF Front!OutputOnly
<1>2. PICK got \in -1..Front!Needed(v3, frames) :
        Front!Play(frames, Front!Needed(v3, frames), got, 0, FALSE)
  BY <1>1
<1>3. v1 = "output" /\ ~v5 /\ UNCHANGED <<v1, v2, v4, v6, v7>>
  BY DEF Front!OutputOnly
<1>4. frames \in Nat /\ frames > 0
  BY FrontConstants
<1>5. FrontPlaces /\ FrontNumbers'
  BY <1>3, FrontNumbersStay DEF FrontGood
<1>6. /\ v5' \in BOOLEAN
      /\ v3' \in (IF v1 \in Front!Replayed THEN Front!Resamplers ELSE Front!DelayLines)
      /\ ~v5' /\ v1 \in Front!Replayed => Front!OutKept(v3')
      /\ ~v5' /\ v1 = "delayed output" => v3'.left = v3.left
      /\ ~v5' => v8'.result = v8'.needed
  <2>1. v1 \in {"output", "both"} \cup Front!Lines /\ FALSE \in BOOLEAN
    BY <1>3
  <2>2. QED
    BY <1>2, <1>3, <1>4, <1>5, <2>1, FrontPlay, Zenon
<1>7. v2' \in (IF v1 \in Front!Resampled THEN Front!Resamplers ELSE Front!DelayLines)
  BY <1>3, <1>5 DEF FrontPlaces
<1>8. QED
  BY <1>3, <1>5, <1>6, <1>7, FrontPlayed

LEMMA FrontDrainGood ==
  ASSUME ComponentsAssumption, FrontGood, Front!Drain PROVE FrontGood'
<1>1. PICK frames \in 1..MaxGive :
        /\ v3' = Front!Output(v3, frames).rest
        /\ v8' = [needed |-> frames, asked |-> 0, got |-> 0, made |-> 0,
                  result |-> Front!Output(v3, frames).made]
  BY Zenon DEF Front!Drain
<1>2. v5 /\ UNCHANGED <<v1, v2, v4, v5, v6, v7>>
  BY DEF Front!Drain
<1>3. frames \in Nat /\ FrontPlaces
  BY FrontConstants DEF FrontGood
<1>4. v3' \in (IF v1 \in Front!Replayed THEN Front!Resamplers ELSE Front!DelayLines)
  <2>1. CASE v1 \in Front!Replayed
    <3>1. v3 \in Front!Resamplers
      BY <1>3, <2>1 DEF FrontPlaces
    <3>2. QED
      BY <1>1, <1>3, <2>1, <3>1, FrontOutput
  <2>2. CASE v1 \notin Front!Replayed
    <3>1. v3 \in Front!DelayLines
      BY <1>3, <2>2 DEF FrontPlaces
    <3>2. QED
      BY <1>1, <1>3, <2>2, <3>1, LineOutput
  <2>3. QED
    BY <2>1, <2>2
<1>5. FrontNumbers'
  BY <1>2, FrontNumbersStay DEF FrontGood
<1>6. FrontPlaces'
  BY <1>2, <1>3, <1>4 DEF FrontPlaces, Front!InKept, Front!Place
<1>7. Front!ExactOutput'
  BY <1>2 DEF Front!ExactOutput
<1>8. Front!ExactInput'
  <2>1. ASSUME v1 = "input" PROVE 0 <= (v2.ratio[2] - 1) \div v2.ratio[1]
    <3>1. v2 \in Front!Resamplers
      BY <1>3, <2>1 DEF FrontPlaces, Front!Resampled
    <3>2. QED
      BY <3>1, FrontExactly
  <2>2. v8'.asked = 0 /\ v8'.made = 0
    BY <1>1
  <2>3. v8'.asked - v8'.made = 0
    BY <2>2
  <2>4. QED
    BY <1>2, <2>1, <2>3 DEF Front!ExactInput
<1>9. QED
  BY <1>5, <1>6, <1>7, <1>8 DEF FrontGood

LEMMA FrontDuplexGood ==
  ASSUME ComponentsAssumption, Front!KeepsEnough, ~Starved, FrontGood, Front!Duplex
  PROVE  FrontGood'
<1>1. PICK frames \in 1..MaxGive, count \in 0..MaxGive :
        LET n == Front!Needed(v3, frames)
            o == Front!Output([v2 EXCEPT !.left = @ + count], n)
        IN \E got \in -1..n :
             /\ Front!Play(frames, n, got, IF Front!IsLine(v2) THEN n ELSE o.made, TRUE)
             /\ IF Front!IsLine(v2) THEN Front!Delayed(count, n, got < 0)
                ELSE /\ v2' = IF got < 0 THEN o.rest ELSE Front!Dropped(o.rest)
                     /\ UNCHANGED <<v4, v6, v7>>
  BY Zenon DEF Front!Duplex
<1> DEFINE n == Front!Needed(v3, frames)
           o == Front!Output([v2 EXCEPT !.left = @ + count], n)
           made == IF Front!IsLine(v2) THEN n ELSE o.made
<1>2. PICK got \in -1..n :
        /\ Front!Play(frames, n, got, made, TRUE)
        /\ IF Front!IsLine(v2) THEN Front!Delayed(count, n, got < 0)
           ELSE /\ v2' = IF got < 0 THEN o.rest ELSE Front!Dropped(o.rest)
                /\ UNCHANGED <<v4, v6, v7>>
  BY <1>1, Zenon
<1>3. v1 \in {"output", "both"} \cup Front!Lines /\ ~v5 /\ v1' = v1
      /\ v1 \in {"both"} \cup Front!Lines
  BY DEF Front!Duplex
<1>4. frames \in Nat /\ frames > 0 /\ count \in Nat
  BY FrontConstants
<1>5. FrontPlaces /\ FrontNumbers
  BY DEF FrontGood
<1>6. /\ v5' \in BOOLEAN
      /\ v3' \in (IF v1 \in Front!Replayed THEN Front!Resamplers ELSE Front!DelayLines)
      /\ ~v5' /\ v1 \in Front!Replayed => Front!OutKept(v3')
      /\ ~v5' /\ v1 = "delayed output" => v3'.left = v3.left
      /\ ~v5' => v8'.result = v8'.needed
  <2>1. TRUE \in BOOLEAN
    OBVIOUS
  <2> HIDE DEF made
  <2>2. QED
    BY <1>2, <1>3, <1>4, <1>5, <2>1, FrontPlay, Zenon
<1>7. n \in Nat
  BY <1>3, <1>4, <1>5, FrontNeeds
<1> HIDE DEF n
<1>8. /\ v2' \in (IF v1 \in Front!Resampled THEN Front!Resamplers ELSE Front!DelayLines)
      /\ v2'.ratio = v2.ratio /\ FrontNumbers'
  <2>1. CASE v1 \in Front!Resampled
    <3> DEFINE full == [v2 EXCEPT !.left = @ + count]
    <3>1. v2 \in Front!Resamplers /\ ~Front!IsLine(v2)
      BY <1>5, <2>1, ResamplerIs DEF FrontPlaces
    <3>2. full \in Front!Resamplers /\ full.ratio = v2.ratio
      <4>1. /\ full \in Front!Resamplers
            /\ full = [ratio |-> v2.ratio, left |-> v2.left + count, pos |-> v2.pos]
        BY <1>4, <3>1, ResamplerFed
      <4> HIDE DEF full
      <4>2. QED
        BY <4>1
    <3>3. o = Front!Output(full, n)
      OBVIOUS
    <3> HIDE DEF full, o
    <3>4. o.rest \in Front!Resamplers /\ o.rest.ratio = v2.ratio
      BY <1>7, <3>2, <3>3, FrontOutput
    <3>5. Front!Dropped(o.rest) \in Front!Resamplers /\ Front!Dropped(o.rest).ratio = v2.ratio
      BY <3>4, ResamplerDropped
    <3>6. /\ v2' = IF got < 0 THEN o.rest ELSE Front!Dropped(o.rest)
          /\ UNCHANGED <<v4, v6, v7>>
      BY <1>2, <3>1, Zenon
    <3>7. FrontNumbers'
      BY <1>5, <3>6, FrontNumbersStay
    <3>8. QED
      BY <2>1, <3>4, <3>5, <3>6, <3>7
  <2>2. CASE v1 \notin Front!Resampled
    <3>1. v2 \in Front!DelayLines /\ Front!IsLine(v2)
      BY <1>5, <2>2, LineIs DEF FrontPlaces
    <3> DEFINE error == got < 0
    <3>2. error \in BOOLEAN
      BY <1>7
    <3>3. Front!Delayed(count, n, error)
      BY <1>2, <3>1, Zenon
    <3> HIDE DEF error
    <3>4. FrontNumbers' /\ v2' = v2
      BY <1>4, <1>5, <1>7, <3>2, <3>3, FrontDelayed
    <3>5. QED
      BY <2>2, <3>1, <3>4
  <2>3. QED
    BY <2>1, <2>2
<1>9. QED
  BY <1>3, <1>5, <1>6, <1>8, FrontPlayed

LEMMA FrontNoInputGood ==
  ASSUME ComponentsAssumption, Front!KeepsEnough, FrontGood, Front!DuplexNoInput
  PROVE  FrontGood'
<1>1. PICK frames \in 1..MaxGive :
        \E got \in -1..Front!Needed(v3, frames) :
          /\ Front!Play(frames, Front!Needed(v3, frames), got, 0, TRUE)
          /\ v2' = IF got < 0 THEN v2 ELSE Front!Dropped(v2)
          /\ IF got < 0 THEN UNCHANGED <<v4, v7>> ELSE Front!KeepRest(v4, 0, <<>>)
  BY Zenon DEF Front!DuplexNoInput
<1>2. PICK got \in -1..Front!Needed(v3, frames) :
        /\ Front!Play(frames, Front!Needed(v3, frames), got, 0, TRUE)
        /\ v2' = IF got < 0 THEN v2 ELSE Front!Dropped(v2)
        /\ IF got < 0 THEN UNCHANGED <<v4, v7>> ELSE Front!KeepRest(v4, 0, <<>>)
  BY <1>1
<1>3. v1 \in {"output", "both"} \cup Front!Lines /\ ~v5 /\ v1' = v1 /\ v6' = v6
  BY DEF Front!DuplexNoInput
<1>4. frames \in Nat /\ frames > 0
  BY FrontConstants
<1>5. FrontPlaces /\ FrontNumbers
  BY DEF FrontGood
<1>6. /\ v5' \in BOOLEAN
      /\ v3' \in (IF v1 \in Front!Replayed THEN Front!Resamplers ELSE Front!DelayLines)
      /\ ~v5' /\ v1 \in Front!Replayed => Front!OutKept(v3')
      /\ ~v5' /\ v1 = "delayed output" => v3'.left = v3.left
      /\ ~v5' => v8'.result = v8'.needed
  <2>1. TRUE \in BOOLEAN
    OBVIOUS
  <2>2. QED
    BY <1>2, <1>3, <1>4, <1>5, <2>1, FrontPlay, Zenon
<1>7. /\ v2' \in (IF v1 \in Front!Resampled THEN Front!Resamplers ELSE Front!DelayLines)
      /\ v2'.ratio = v2.ratio
  <2>1. v2' = v2 \/ v2' = Front!Dropped(v2)
    BY <1>2
  <2>2. CASE v1 \in Front!Resampled
    <3>1. v2 \in Front!Resamplers
      BY <1>5, <2>2 DEF FrontPlaces
    <3>2. QED
      BY <2>1, <2>2, <3>1, ResamplerDropped
  <2>3. CASE v1 \notin Front!Resampled
    <3>1. v2 \in Front!DelayLines
      BY <1>5, <2>3 DEF FrontPlaces
    <3>2. Front!Dropped(v2) \in Front!DelayLines /\ Front!Dropped(v2).ratio = v2.ratio
      <4>1. Front!Dropped(v2) \in Front!DelayLines
        BY <3>1, LineDropped
      <4>2. v2.ratio = Front!NoRatio /\ Front!Dropped(v2).ratio = Front!NoRatio
        BY <3>1, <4>1, LineIs DEF Front!IsLine
      <4>3. QED
        BY <4>1, <4>2
    <3>3. QED
      BY <2>1, <2>3, <3>1, <3>2
  <2>4. QED
    BY <2>2, <2>3
<1>8. FrontNumbers'
  <2>1. CASE got < 0
    BY <1>2, <1>3, <1>5, <2>1, FrontNumbersStay
  <2>2. CASE ~(got < 0)
    <3>1. Front!KeepRest(v4, 0, <<>>)
      BY <1>2, <2>2
    <3>2. v4 \in Seq(Nat)
      BY <1>5 DEF FrontNumbers, Numbers
    <3>3. Front!Numbered(<<>>) = Front!Numbered(SubSeq(v4, 1, 0)) /\ 0 \in 0..Len(v4)
      BY <3>2, NothingGiven
    <3>4. v7 \in [given : Nat, dropped : Nat] /\ Numbers(v4, v7.given + v7.dropped, v6)
      BY <1>5 DEF FrontNumbers
    <3>5. v7' \in [given : Nat, dropped : Nat] /\ Numbers(v4', v7'.given + v7'.dropped, v6)
      BY <3>1, <3>3, <3>4, FrontKeepRest
    <3>6. QED
      BY <1>3, <1>5, <3>5 DEF FrontNumbers, Front!Frames
  <2>3. QED
    BY <2>1, <2>2
<1>9. QED
  BY <1>3, <1>5, <1>6, <1>7, <1>8, FrontPlayed

\* cubeb_resampler_create.
LEMMA FrontInit ==
  ASSUME ComponentsAssumption, Front!Init PROVE FrontGood
<1>1. PICK r \in Ratios, s \in Ratios :
        /\ v2 = CASE v1 \in Front!Resampled -> Front!OneWay(r) [] OTHER -> Front!DelayLine(0)
        /\ v3 = CASE v1 \in Front!Replayed -> Front!OneWay(s)
                  [] v1 = "delayed output" -> Front!DelayLine(Front!LatencyOf(r))
                  [] OTHER -> Front!DelayLine(0)
        /\ v4 = IF v1 = "delayed input" THEN Front!Silence(Front!LatencyOf(s)) ELSE <<>>
  BY Zenon DEF Front!Init, Front!Resampled, Front!Replayed
<1>2. /\ v1 \in FrontKinds /\ v5 = FALSE /\ v6 = 0 /\ v7 = [given |-> 0, dropped |-> 0]
      /\ v8.needed = 0 /\ v8.asked = 0 /\ v8.made = 0 /\ v8.result = 0
  BY DEF Front!Init
<1>3. ASSUME NEW q \in Ratios PROVE Front!LatencyOf(q) \in Nat
  <2> DEFINE num == q[1]
             den == q[2]
             x == HalfFilter * den
             y == num \div 2
  <2>1. num \in Nat /\ num > 0 /\ den \in Nat /\ HalfFilter \in Nat
    BY FrontConstants
  <2> HIDE DEF num, den
  <2>2. x \in Nat /\ y \in Nat
    <3>1. x \in Nat
      BY ONLY <2>1, ProductIsNat
    <3>2. y \in Nat
      BY ONLY <2>1, Quotient
    <3>3. QED
      BY ONLY <3>1, <3>2
  <2> HIDE DEF x, y
  <2>3. x + y \in Nat
    BY ONLY <2>2
  <2>4. (x + y) \div num \in Nat
    BY ONLY <2>1, <2>3, Quotient
  <2>5. QED
    BY <2>4 DEF Front!LatencyOf, x, y, num, den
<1>4. v2 \in (IF v1 \in Front!Resampled THEN Front!Resamplers ELSE Front!DelayLines)
      /\ (v1 \in Front!Resampled => v2 = Front!OneWay(r) /\ v2.ratio = r /\ Front!InKept(v2))
  <2>1. CASE v1 \in Front!Resampled
    <3>1. v2 = Front!OneWay(r)
      BY <1>1, <2>1, Zenon
    <3>2. QED
      BY <2>1, <3>1, FrontOneWay
  <2>2. CASE v1 \notin Front!Resampled
    <3>1. v2 = Front!DelayLine(0)
      BY <1>1, <2>2
    <3>2. QED
      BY <2>2, <3>1 DEF Front!DelayLines
  <2>3. QED
    BY <2>1, <2>2
<1>5. /\ v3 \in (IF v1 \in Front!Replayed THEN Front!Resamplers ELSE Front!DelayLines)
      /\ v1 \in Front!Replayed => Front!OutKept(v3)
      /\ v1 = "delayed output" => v3.left = Front!LatencyOf(r)
  <2>1. CASE v1 \in Front!Replayed
    <3>1. v3 = Front!OneWay(s) /\ v1 # "delayed output"
      BY <1>1, <2>1 DEF Front!Replayed
    <3>2. QED
      BY <2>1, <3>1, FrontOneWay
  <2>2. CASE v1 = "delayed output"
    <3>1. v3 = Front!DelayLine(Front!LatencyOf(r)) /\ ~(v1 \in Front!Replayed)
      BY <1>1, <2>2 DEF Front!Replayed
    <3>2. v3 \in Front!DelayLines
      BY <1>3, <3>1 DEF Front!DelayLines
    <3>3. v3.left = Front!LatencyOf(r)
      BY <3>1 DEF Front!DelayLine
    <3>4. QED
      BY <3>1, <3>2, <3>3
  <2>3. CASE v1 \notin Front!Replayed /\ v1 # "delayed output"
    <3>1. v3 = Front!DelayLine(0)
      BY <1>1, <2>3
    <3>2. QED
      BY <2>3, <3>1 DEF Front!DelayLines
  <2>4. QED
    BY <2>1, <2>2, <2>3
<1>6. FrontPlaces
  <2>1. "input" \in Front!Resampled /\ "delayed output" \in Front!Resampled
    BY DEF Front!Resampled
  <2>2. QED
    BY <1>2, <1>4, <1>5, <2>1 DEF FrontPlaces
<1>7. Numbers(v4, 0, 0)
  <2>1. Numbers(<<>>, 0, 0)
    BY DEF Numbers, Waiting, Increasing
  <2>2. CASE v1 = "delayed input"
    <3> DEFINE c == Front!LatencyOf(s)
               t == Front!Silence(c)
    <3>1. c \in Nat
      BY <1>3
    <3> HIDE DEF c
    <3>2. Numbers(<<>> \o t, 0, 0)
      BY <2>1, <3>1, FrontSilenced
    <3>3. t \in Seq(Nat)
      BY <3>1 DEF Front!Silence
    <3> HIDE DEF t
    <3>4. <<>> \o t = t
      BY <3>3
    <3>5. v4 = t
      BY <1>1, <2>2 DEF t, c
    <3>6. QED
      BY <3>2, <3>4, <3>5
  <2>3. CASE v1 # "delayed input"
    BY <1>1, <2>1, <2>3
  <2>4. QED
    BY <2>2, <2>3
<1>8. FrontNumbers
  <2>1. v7 \in [given : Nat, dropped : Nat] /\ v7.given + v7.dropped = 0
    BY <1>2
  <2>2. v6 \in Front!Frames
    BY <1>2, FrontConstants DEF Front!Frames
  <2>3. QED
    BY <1>2, <1>7, <2>1, <2>2 DEF FrontNumbers
<1>9. Front!ExactOutput
  BY <1>2 DEF Front!ExactOutput
<1>10. Front!ExactInput
  <2>1. ASSUME v1 = "input" PROVE 0 <= (v2.ratio[2] - 1) \div v2.ratio[1]
    <3>1. v2 \in Front!Resamplers
      BY <1>4, <2>1 DEF Front!Resampled
    <3>2. QED
      BY <3>1, FrontExactly
  <2>2. v8.asked - v8.made = 0
    BY <1>2
  <2>3. QED
    BY <2>1, <2>2 DEF Front!ExactInput
<1>11. QED
  BY <1>6, <1>8, <1>9, <1>10 DEF FrontGood

LEMMA FrontStep ==
  ASSUME ComponentsAssumption, Front!KeepsEnough, ~Starved, FrontGood, Front!Next
  PROVE  FrontGood'
BY FrontPassGood, FrontInputGood, FrontOutputGood, FrontDrainGood, FrontDuplexGood, FrontNoInputGood
   DEF Front!Next

LEMMA FrontStutter ==
  ASSUME FrontGood, UNCHANGED Shared PROVE FrontGood'
<1>1. UNCHANGED <<v1, v2, v3, v4, v5, v6, v7, v8>>
  BY DEF Shared
<1>2. FrontPlaces' /\ FrontNumbers'
  BY <1>1, FrontPlacesStay, FrontNumbersStay DEF FrontGood
<1>3. Front!ExactOutput' /\ Front!ExactInput'
  BY <1>1 DEF FrontGood, Front!ExactOutput, Front!ExactInput
<1>4. QED
  BY <1>2, <1>3 DEF FrontGood

LEMMA FrontRight == ASSUME ComponentsAssumption, FrontGood PROVE Front!FillIsRight
BY FrontInvariant, FrontSafe DEF FrontGood

----------------------------------------------------------------------------
(* The parts side by side *)

LEMMA PartStays ==
  ASSUME [Next]_vars
  PROVE  /\ part' = part
         /\ part = "speex" => Speex!Next \/ UNCHANGED <<v1, v2, v3>>
         /\ part = "front" => Front!Next \/ UNCHANGED Shared
<1>1. CASE OwnNext
  BY <1>1 DEF OwnNext, Shared
<1>2. CASE SharedNext
  BY <1>2 DEF SharedNext
<1>3. CASE UNCHANGED vars
  BY <1>3 DEF vars, Shared
<1>4. QED
  BY <1>1, <1>2, <1>3 DEF Next

\* For every pair of ratios, every table of filters, every buffer and every
\* word: what the resampler reads and writes is inside the memory it has, and its
\* position within the filter's table, through every sequence of changes and
\* calls (speex_resampler_set_rate_frac, update_filter, speex_resampler_process).
THEOREM SpeexIsRight ==
  Spec => [](part = "speex" => Speex!MemoryFits /\ Speex!FractionInTable)
<1> DEFINE I == part = "speex" => Speex!IInv
<1>1. Init => I
  BY SpeexInit, ComponentsAssumption DEF Init
<1>2. I /\ [Next]_vars => I'
  BY PartStays, SpeexStep, SpeexStutter, ComponentsAssumption
<1>3. I => (part = "speex" => Speex!MemoryFits /\ Speex!FractionInTable)
  BY DEF Speex!IInv
<1>4. QED
  BY <1>1, <1>2, <1>3, PTL DEF Spec

\* A change of the filter keeps the place in the input, and every chunk brings a
\* call nearer to its end.
THEOREM KeepsItsPlace == Spec => InputGoesOn
<1> DEFINE I == part = "speex" => Speex!IInv
           A == part = "speex" => Speex!DelayStays /\ Speex!ChunkAdvances
<1>1. Init => I
  BY SpeexInit, ComponentsAssumption DEF Init
<1>2. I /\ [Next]_vars => I'
  BY PartStays, SpeexStep, SpeexStutter, ComponentsAssumption
<1>3. I /\ [Next]_vars => [A]_vars
  <2> SUFFICES ASSUME I, [Next]_vars, part = "speex"
               PROVE  (Speex!DelayStays /\ Speex!ChunkAdvances) \/ UNCHANGED vars
    OBVIOUS
  <2>1. CASE Speex!Next
    BY <2>1, SpeexStep, ComponentsAssumption
  <2>2. CASE UNCHANGED <<v1, v2, v3>> /\ ~Speex!Next
    <3>1. Speex!DelayStays
      BY <2>2 DEF Speex!DelayStays
    <3>2. ~Speex!Chunk
      BY <2>2 DEF Speex!Next, Speex!Working
    <3>3. QED
      BY <3>1, <3>2 DEF Speex!ChunkAdvances
  <2>3. QED
    BY <2>1, <2>2, PartStays
<1>4. QED
  BY <1>1, <1>2, <1>3, PTL DEF Spec, InputGoesOn

\* For every set of ratios, every filter and calls of every size: a frame that is
\* recorded reaches the callback once and in order or is dropped as too old, the
\* backend gets as many frames as it asked for unless the callback returned too
\* few, and what waits to be resampled stays below what the ratio sets, so that
\* drop_audio_if_needed never takes what is still to be played.  The hypotheses are
\* that the backend records what it says, and that min_buffered_audio_frame is no
\* less than the latency of the filter and than a frame that is resampled.
THEOREM ResamplesRight ==
  ASSUME ~Starved, Front!KeepsEnough PROVE Spec => []ResamplerIsRight
<1> DEFINE I == part = "front" => FrontGood
<1>1. Init => I
  BY FrontInit, ComponentsAssumption DEF Init
<1>2. I /\ [Next]_vars => I'
  BY PartStays, FrontStep, FrontStutter, ComponentsAssumption
<1>3. I /\ (part = "speex" => Speex!MemoryFits /\ Speex!FractionInTable) => ResamplerIsRight
  BY FrontRight, ComponentsAssumption DEF ResamplerIsRight
<1>4. Spec => [](part = "speex" => Speex!MemoryFits /\ Speex!FractionInTable)
  BY SpeexIsRight
<1>5. QED
  BY <1>1, <1>2, <1>3, <1>4, PTL DEF Spec
=============================================================================
