---------------------------- MODULE ReceiptProofs ---------------------------
(***************************************************************************)
(* Theorems about receipts, for every set of receipts, events and options: *)
(* what an accepted receipt vouches for, how the options relate, and that  *)
(* a capture finds its receipt however the stream is cut.                  *)
(***************************************************************************)
EXTENDS ReceiptCapture, WellFoundedInduction, TLAPS

-----------------------------------------------------------------------------
(* A non-empty set of numbers has a least one.                             *)
LEMMA LeastNumber ==
    ASSUME NEW T \in SUBSET Nat, T # {}
    PROVE  \E n \in T : \A m \in T : n <= m
  <1>1. IsWellFoundedOn(OpToRel(<, Nat), Nat)
    BY NatLessThanWellFounded, ZenonT(30)
  <1>2. PICK x \in T : \A y \in T : ~ (<< y, x >> \in OpToRel(<, Nat))
    BY <1>1, WFMin, ZenonT(30)
  <1>3. \A y \in T : ~ (y < x)
    BY <1>2, ZenonT(30) DEF OpToRel
  <1> QED BY <1>3

(* Induction over the numbers, for a set given as a value.                 *)
LEMMA NumberInduction ==
    ASSUME NEW T \in SUBSET Nat, 0 \in T, \A n \in T : n + 1 \in T
    PROVE  T = Nat
  <1>1. SUFFICES ASSUME Nat \ T # {} PROVE FALSE
    BY ZenonT(30)
  <1>2. PICK n \in Nat \ T : \A m \in Nat \ T : n <= m
    BY <1>1, LeastNumber, ZenonT(30)
  <1>3. n # 0 /\ n - 1 \in T
    BY <1>2
  <1> QED BY <1>2, <1>3

-----------------------------------------------------------------------------
(*                    The first of the checks that fails                   *)

IsSequence(s) == \E S : s \in Seq(S)

(* The checks of s are well-formed: failing one is an error.               *)
Checklist(s) ==
    IsSequence(s) /\ \A i \in 1 .. Len(s) : s[i].class # "none"

AllHold(s) == \A i \in 1 .. Len(s) : s[i].holds

(* FirstFailed finds the least index of a failed check, 0 if there is      *)
(* none.                                                                   *)
LEMMA FirstFailedIsFirst ==
    ASSUME NEW s, IsSequence(s)
    PROVE  /\ FirstFailed(s) = 0 <=> AllHold(s)
           /\ FirstFailed(s) # 0 =>
                 /\ FirstFailed(s) \in 1 .. Len(s)
                 /\ \A j \in 1 .. Len(s) : ~ s[j].holds => FirstFailed(s) <= j
  <1> DEFINE I == {i \in 1 .. Len(s) : ~ s[i].holds}
  <1>1. FirstFailed(s) = IF I # {} THEN Min(I) ELSE 0
    BY DEF FirstFailed, SelectInSeq
  <1>2. Len(s) \in Nat /\ I \in SUBSET Nat
    BY DEF IsSequence
  <1>3. I = {} <=> AllHold(s)
    BY DEF AllHold
  <1>4. ASSUME I # {}
        PROVE  Min(I) \in I /\ \A j \in I : Min(I) <= j
    <2>1. PICK x \in I : \A y \in I : x <= y
      BY <1>2, <1>4, LeastNumber, ZenonT(30)
    <2> QED BY <2>1, ZenonT(30) DEF Min
  <1>5. I # {} => Min(I) # 0
    BY <1>4, <1>2
  <1> QED BY <1>1, <1>2, <1>3, <1>4, <1>5

(* Two lists of checks, one after the other.                               *)
LEMMA ChecksInARow ==
    ASSUME NEW s, NEW t, Checklist(s), Checklist(t)
    PROVE  /\ Checklist(s \o t)
           /\ AllHold(s \o t) <=> AllHold(s) /\ AllHold(t)
  <1>1. PICK S : s \in Seq(S)
    BY DEF Checklist, IsSequence
  <1>2. PICK T : t \in Seq(T)
    BY DEF Checklist, IsSequence
  <1>3. s \in Seq(S \cup T) /\ t \in Seq(S \cup T)
    BY <1>1, <1>2
  <1>4. /\ s \o t \in Seq(S \cup T)
        /\ Len(s) \in Nat /\ Len(t) \in Nat /\ Len(s \o t) = Len(s) + Len(t)
        /\ \A i \in 1 .. Len(s) : (s \o t)[i] = s[i]
        /\ \A i \in Len(s) + 1 .. Len(s \o t) : (s \o t)[i] = t[i - Len(s)]
    BY <1>3
  <1>5. \A i \in 1 .. Len(t) : (s \o t)[Len(s) + i] = t[i]
    BY <1>4
  <1>6. \A i \in 1 .. Len(s \o t) :
            \/ i \in 1 .. Len(s)
            \/ i \in Len(s) + 1 .. Len(s \o t) /\ i - Len(s) \in 1 .. Len(t)
    BY <1>4
  <1>7. /\ \A i \in 1 .. Len(s) : i \in 1 .. Len(s \o t)
        /\ \A i \in 1 .. Len(t) : Len(s) + i \in 1 .. Len(s \o t)
    BY <1>4
  <1> HIDE DEF Checklist
  <1>8. Checklist(s \o t)
    BY <1>4, <1>6 DEF Checklist, IsSequence
  <1>9. AllHold(s \o t) => AllHold(s) /\ AllHold(t)
    BY <1>4, <1>5, <1>7, ZenonT(30) DEF AllHold
  <1>10. AllHold(s) /\ AllHold(t) => AllHold(s \o t)
    BY <1>4, <1>6 DEF AllHold
  <1> QED BY <1>8, <1>9, <1>10

(* The lists are of two, three, six or seven checks.                       *)
LEMMA TwoChecks ==
    ASSUME NEW a, NEW b, a.class # "none", b.class # "none"
    PROVE  /\ Checklist(<< a, b >>)
           /\ AllHold(<< a, b >>) <=> a.holds /\ b.holds
  <1>1. << a, b >> \in Seq({a, b}) /\ Len(<< a, b >>) = 2
    OBVIOUS
  <1>2. \A i \in 1 .. 2 : i = 1 \/ i = 2
    OBVIOUS
  <1>3. << a, b >>[1] = a /\ << a, b >>[2] = b
    OBVIOUS
  <1>4. Checklist(<< a, b >>)
    BY <1>1, <1>2, <1>3, ZenonT(30) DEF Checklist, IsSequence
  <1> QED BY <1>1, <1>2, <1>3, <1>4 DEF AllHold

(* The same for three.                                                     *)
LEMMA ThreeChecks ==
    ASSUME NEW a, NEW b, NEW c,
           a.class # "none", b.class # "none", c.class # "none"
    PROVE  /\ Checklist(<< a, b, c >>)
           /\ AllHold(<< a, b, c >>) <=> a.holds /\ b.holds /\ c.holds
  <1> DEFINE s == << a, b, c >>
  <1>1. s \in Seq({a, b, c}) /\ Len(s) = 3
    OBVIOUS
  <1>2. \A i \in 1 .. 3 : i = 1 \/ i = 2 \/ i = 3
    OBVIOUS
  <1>3. s[1] = a /\ s[2] = b /\ s[3] = c
    OBVIOUS
  <1> HIDE DEF s
  <1>4. Checklist(s)
    BY <1>1, <1>2, <1>3 DEF Checklist, IsSequence
  <1>5. AllHold(s) <=> a.holds /\ b.holds /\ c.holds
    BY <1>1, <1>2, <1>3 DEF AllHold
  <1> QED BY <1>4, <1>5 DEF s

(* The lists of six speak of the receipt alone.                            *)
LEMMA SixChecks ==
    ASSUME NEW a, NEW b, NEW c, NEW d, NEW e, NEW f,
           a.class # "none", b.class # "none", c.class # "none",
           d.class # "none", e.class # "none", f.class # "none"
    PROVE  Checklist(<< a, b, c, d, e, f >>)
  <1> DEFINE s == << a, b, c, d, e, f >>
  <1>1. s \in Seq({a, b, c, d, e, f}) /\ Len(s) = 6
    OBVIOUS
  <1>2. \A i \in 1 .. 6 : i = 1 \/ i = 2 \/ i = 3 \/ i = 4 \/ i = 5 \/ i = 6
    OBVIOUS
  <1>3. s[1] = a /\ s[2] = b /\ s[3] = c /\ s[4] = d /\ s[5] = e /\ s[6] = f
    OBVIOUS
  <1> HIDE DEF s
  <1>4. Checklist(s)
    BY <1>1, <1>2, <1>3 DEF Checklist, IsSequence
  <1> QED BY <1>4 DEF s

(* And so does the list of seven.                                          *)
LEMMA SevenChecks ==
    ASSUME NEW a, NEW b, NEW c, NEW d, NEW e, NEW f, NEW g,
           a.class # "none", b.class # "none", c.class # "none",
           d.class # "none", e.class # "none", f.class # "none",
           g.class # "none"
    PROVE  Checklist(<< a, b, c, d, e, f, g >>)
  <1> DEFINE s == << a, b, c, d, e, f, g >>
  <1>1. s \in Seq({a, b, c, d, e, f, g}) /\ Len(s) = 7
    OBVIOUS
  <1>2. \A i \in 1 .. 7 :
            i = 1 \/ i = 2 \/ i = 3 \/ i = 4 \/ i = 5 \/ i = 6 \/ i = 7
    OBVIOUS
  <1>3. /\ s[1] = a /\ s[2] = b /\ s[3] = c /\ s[4] = d
        /\ s[5] = e /\ s[6] = f /\ s[7] = g
    OBVIOUS
  <1> HIDE DEF s
  <1>4. Checklist(s)
    BY <1>1, <1>2, <1>3 DEF Checklist, IsSequence
  <1> QED BY <1>4 DEF s

(* What of a receipt is checked whatever the options say.                  *)
ReceiptHolds(r) ==
    /\ AllHold(EnvelopeChecks(r)) /\ AllHold(ClaimChecks(r))
    /\ AllHold(UpstreamChecks(r)) /\ AllHold(DigestClaim(r))

(* What is checked of the receipt and the options together.                *)
OptionsHold(r, o) ==
    /\ CanonicalOrigin(o.issuer) # Absent
    /\ AllHold(IssuerChecks(r, o)) /\ AllHold(TimeChecks(r, o))
    /\ AllHold(NonceChecks(r, o)) /\ AllHold(RequestChecks(r, o))
    /\ ~ (o.body # Absent /\ o.stream.given)
    /\ ResponseMatches(r, o)

(* Every check of verify_receipt_with has an error of its own.             *)
LEMMA ChecksAreLists ==
    ASSUME NEW r, NEW o
    PROVE  /\ Checklist(EnvelopeChecks(r)) /\ Checklist(IssuerChecks(r, o))
           /\ Checklist(TimeChecks(r, o)) /\ Checklist(ClaimChecks(r))
           /\ Checklist(NonceChecks(r, o)) /\ Checklist(UpstreamChecks(r))
           /\ Checklist(RequestChecks(r, o)) /\ Checklist(DigestClaim(r))
  <1>0. \A class, holds : Check(class, holds).class = class
    BY DEF Check
  <1>1. \A fault, class : Sound(r, fault, class).class = class
    BY <1>0 DEF Sound
  <1>2. Checklist(EnvelopeChecks(r))
    BY <1>1, SevenChecks DEF EnvelopeChecks
  <1>3. Checklist(IssuerChecks(r, o))
    BY <1>0, <1>1, ThreeChecks DEF IssuerChecks
  <1>4. Checklist(TimeChecks(r, o))
    BY <1>0, <1>1, ThreeChecks DEF TimeChecks
  <1>5. Checklist(ClaimChecks(r))
    BY <1>0, <1>1, ThreeChecks DEF ClaimChecks
  <1>6. Checklist(NonceChecks(r, o))
    BY <1>0, <1>1, TwoChecks DEF NonceChecks
  <1>7. Checklist(UpstreamChecks(r))
    BY <1>0, <1>1, SixChecks DEF UpstreamChecks
  <1>8. Checklist(RequestChecks(r, o))
    BY <1>0, <1>1, TwoChecks DEF RequestChecks
  <1>9. Checklist(DigestClaim(r))
    BY <1>0, <1>1, ThreeChecks DEF DigestClaim
  <1> QED BY <1>2, <1>3, <1>4, <1>5, <1>6, <1>7, <1>8, <1>9
(* verify_receipt_with gets past its checks exactly when they all hold.    *)
LEMMA ChecksTogether ==
    ASSUME NEW r, NEW o
    PROVE  /\ Checklist(Checks(r, o))
           /\ AllHold(Checks(r, o))
                <=> TrafficBound(o) /\ ReceiptHolds(r) /\ OptionsHold(r, o)
           /\ Len(Checks(r, o)) >= 1
           /\ Checks(r, o)[1] = Check("missing_binding", TrafficBound(o))
  <1> DEFINE first == << Check("missing_binding", TrafficBound(o)),
                         Check("issuer", CanonicalOrigin(o.issuer) # Absent) >>
             last == << Check("hash", ~ (o.body # Absent /\ o.stream.given)),
                        Check("hash", ResponseMatches(r, o)) >>
             s1 == first \o EnvelopeChecks(r)
             s2 == s1 \o IssuerChecks(r, o)
             s3 == s2 \o TimeChecks(r, o)
             s4 == s3 \o ClaimChecks(r)
             s5 == s4 \o NonceChecks(r, o)
             s6 == s5 \o UpstreamChecks(r)
             s7 == s6 \o RequestChecks(r, o)
             s8 == DigestClaim(r) \o last
  <1>2. /\ Checklist(first) /\ first[1] = Check("missing_binding", TrafficBound(o))
        /\ AllHold(first) <=> TrafficBound(o) /\ CanonicalOrigin(o.issuer) # Absent
    <2> DEFINE a == Check("missing_binding", TrafficBound(o))
               b == Check("issuer", CanonicalOrigin(o.issuer) # Absent)
    <2>1. a.class = "missing_binding" /\ (a.holds <=> TrafficBound(o))
      BY DEF Check
    <2>2. b.class = "issuer" /\ (b.holds <=> CanonicalOrigin(o.issuer) # Absent)
      BY ZenonT(30) DEF Check
    <2> HIDE DEF a, b
    <2>3. /\ Checklist(<< a, b >>) /\ << a, b >>[1] = a
          /\ AllHold(<< a, b >>) <=> a.holds /\ b.holds
      BY <2>1, <2>2, TwoChecks
    <2>4. first = << a, b >>
      BY DEF a, b
    <2> HIDE DEF first
    <2>5. first[1] = Check("missing_binding", TrafficBound(o))
      BY <2>3, <2>4 DEF a
    <2> QED BY <2>1, <2>2, <2>3, <2>4, <2>5
  <1>3. /\ Checklist(last)
        /\ AllHold(last) <=> /\ ~ (o.body # Absent /\ o.stream.given)
                             /\ ResponseMatches(r, o)
    <2> DEFINE a == Check("hash", ~ (o.body # Absent /\ o.stream.given))
               b == Check("hash", ResponseMatches(r, o))
    <2>1. a.class = "hash" /\ (a.holds <=> ~ (o.body # Absent /\ o.stream.given))
      BY ZenonT(30) DEF Check
    <2>2. b.class = "hash" /\ (b.holds <=> ResponseMatches(r, o))
      BY DEF Check
    <2>3. last = << a, b >>
      BY DEF a, b
    <2> HIDE DEF a, b, last
    <2>4. Checklist(<< a, b >>) /\ (AllHold(<< a, b >>) <=> a.holds /\ b.holds)
      BY <2>1, <2>2, TwoChecks
    <2> QED BY <2>1, <2>2, <2>3, <2>4
  <1>4. Checks(r, o) = s7 \o s8
    BY DEF Checks, ResponseChecks
  <1> HIDE DEF first, last
  <1>5. Checklist(s1) /\ (AllHold(s1) <=> AllHold(first) /\ AllHold(EnvelopeChecks(r)))
    BY <1>2, ChecksAreLists, ChecksInARow
  <1> HIDE DEF s1
  <1>6. Checklist(s2) /\ (AllHold(s2) <=> AllHold(s1) /\ AllHold(IssuerChecks(r, o)))
    BY <1>5, ChecksAreLists, ChecksInARow
  <1> HIDE DEF s2
  <1>7. Checklist(s3) /\ (AllHold(s3) <=> AllHold(s2) /\ AllHold(TimeChecks(r, o)))
    BY <1>6, ChecksAreLists, ChecksInARow
  <1> HIDE DEF s3
  <1>8. Checklist(s4) /\ (AllHold(s4) <=> AllHold(s3) /\ AllHold(ClaimChecks(r)))
    BY <1>7, ChecksAreLists, ChecksInARow
  <1> HIDE DEF s4
  <1>9. Checklist(s5) /\ (AllHold(s5) <=> AllHold(s4) /\ AllHold(NonceChecks(r, o)))
    BY <1>8, ChecksAreLists, ChecksInARow
  <1> HIDE DEF s5
  <1>10. Checklist(s6) /\ (AllHold(s6) <=> AllHold(s5) /\ AllHold(UpstreamChecks(r)))
    BY <1>9, ChecksAreLists, ChecksInARow
  <1> HIDE DEF s6
  <1>11. Checklist(s7) /\ (AllHold(s7) <=> AllHold(s6) /\ AllHold(RequestChecks(r, o)))
    BY <1>10, ChecksAreLists, ChecksInARow
  <1> HIDE DEF s7
  <1>12. Checklist(s8) /\ (AllHold(s8) <=> AllHold(DigestClaim(r)) /\ AllHold(last))
    BY <1>3, ChecksAreLists, ChecksInARow
  <1> HIDE DEF s8
  <1>13. /\ Checklist(s7 \o s8)
         /\ AllHold(s7 \o s8) <=> AllHold(s7) /\ AllHold(s8)
    BY <1>11, <1>12, ChecksInARow
  <1>14. AllHold(Checks(r, o))
           <=> TrafficBound(o) /\ ReceiptHolds(r) /\ OptionsHold(r, o)
    BY <1>2, <1>3, <1>4, <1>5, <1>6, <1>7, <1>8, <1>9, <1>10, <1>11, <1>12, <1>13
       DEF ReceiptHolds, OptionsHold
  <1>15. ASSUME NEW s, NEW t, Checklist(s), Checklist(t), Len(s) >= 1
         PROVE  Len(s \o t) >= 1 /\ (s \o t)[1] = s[1]
    <2>1. PICK S : s \in Seq(S)
      BY <1>15 DEF Checklist, IsSequence
    <2>2. PICK T : t \in Seq(T)
      BY <1>15 DEF Checklist, IsSequence
    <2>3. s \in Seq(S \cup T) /\ t \in Seq(S \cup T)
      BY <2>1, <2>2
    <2> QED BY <1>15, <2>3
  <1>16. Len(first) >= 1
    BY DEF first
  <1>17. Len(s1) >= 1 /\ s1[1] = first[1]
    BY <1>2, <1>15, <1>16, ChecksAreLists DEF s1
  <1>18. Len(s2) >= 1 /\ s2[1] = s1[1]
    BY <1>5, <1>15, <1>17, ChecksAreLists DEF s2
  <1>19. Len(s3) >= 1 /\ s3[1] = s2[1]
    BY <1>6, <1>15, <1>18, ChecksAreLists DEF s3
  <1>20. Len(s4) >= 1 /\ s4[1] = s3[1]
    BY <1>7, <1>15, <1>19, ChecksAreLists DEF s4
  <1>21. Len(s5) >= 1 /\ s5[1] = s4[1]
    BY <1>8, <1>15, <1>20, ChecksAreLists DEF s5
  <1>22. Len(s6) >= 1 /\ s6[1] = s5[1]
    BY <1>9, <1>15, <1>21, ChecksAreLists DEF s6
  <1>23. Len(s7) >= 1 /\ s7[1] = s6[1]
    BY <1>10, <1>15, <1>22, ChecksAreLists DEF s7
  <1>24. Len(s7 \o s8) >= 1 /\ (s7 \o s8)[1] = s7[1]
    BY <1>11, <1>12, <1>15, <1>23
  <1> QED BY <1>2, <1>4, <1>13, <1>14, <1>17, <1>18, <1>19, <1>20, <1>21, <1>22,
             <1>23, <1>24, ZenonT(30)

(* verify_receipt_with accepts exactly when every check holds and the      *)
(* evidence does; without the bindings it requires, it says so first.      *)
LEMMA AcceptedWhen ==
    ASSUME NEW r, NEW o
    PROVE  /\ VerifyReceiptWith(r, o) = "none" =>
                 /\ TrafficBound(o) /\ ReceiptHolds(r) /\ OptionsHold(r, o)
                 /\ AttestationError(r, o) = "none"
           /\ TrafficBound(o) /\ ReceiptHolds(r) /\ OptionsHold(r, o) =>
                 VerifyReceiptWith(r, o) = AttestationError(r, o)
           /\ ~ TrafficBound(o) => VerifyReceiptWith(r, o) = "missing_binding"
  <1> DEFINE s == Checks(r, o)
  <1>1. /\ Checklist(s) /\ Len(s) >= 1
        /\ AllHold(s) <=> TrafficBound(o) /\ ReceiptHolds(r) /\ OptionsHold(r, o)
        /\ s[1] = Check("missing_binding", TrafficBound(o))
    BY ChecksTogether
  <1>2. VerifyReceiptWith(r, o) = IF FirstFailed(s) # 0 THEN s[FirstFailed(s)].class
                                  ELSE AttestationError(r, o)
    BY DEF VerifyReceiptWith
  <1> HIDE DEF s
  <1>3. /\ FirstFailed(s) = 0 <=> AllHold(s)
        /\ FirstFailed(s) # 0 =>
              /\ FirstFailed(s) \in 1 .. Len(s)
              /\ \A j \in 1 .. Len(s) : ~ s[j].holds => FirstFailed(s) <= j
    BY <1>1, FirstFailedIsFirst DEF Checklist
  <1>4. FirstFailed(s) # 0 => s[FirstFailed(s)].class # "none"
    BY <1>1, <1>3 DEF Checklist
  <1>5. s[1].class = "missing_binding" /\ (s[1].holds <=> TrafficBound(o))
    BY <1>1 DEF Check
  <1>6. ~ TrafficBound(o) => FirstFailed(s) = 1
    <2>1. Len(s) \in Nat /\ 1 \in 1 .. Len(s)
      BY <1>1 DEF Checklist, IsSequence
    <2> QED BY <1>1, <1>3, <1>5, <2>1
  <1> QED BY <1>1, <1>2, <1>3, <1>4, <1>5, <1>6, ZenonT(30)
-----------------------------------------------------------------------------
(*                        The options of a caller                          *)

OptionsOK(o) == o = [f \in OptionFields |-> o[f]]

(* Relaxing leaves the issuer, the clock and the sources alone.            *)
LEMMA RelaxedFields ==
    ASSUME NEW o, OptionsOK(o), NEW q \in Relaxed(o)
    PROVE  /\ q.issuer = o.issuer /\ q.now = o.now /\ q.reachable = o.reachable
           /\ ~ q.require_bindings /\ ~ q.require_attestation
           /\ q.request \in {o.request, Absent} /\ q.body \in {o.body, Absent}
           /\ q.nonce \in {o.nonce, Absent} /\ q.max_age \in {o.max_age, None}
           /\ q.attestation \in {o.attestation, NoDocument}
           /\ q.stream \in {o.stream, NoStream}
  <1>1. DOMAIN o = OptionFields
    BY DEF OptionsOK
  <1>2. PICK request \in {o.request, Absent}, body \in {o.body, Absent},
             nonce \in {o.nonce, Absent}, max_age \in {o.max_age, None},
             attestation \in {o.attestation, NoDocument},
             stream \in {o.stream, NoStream} :
               q = [o EXCEPT !.require_bindings = FALSE, !.require_attestation = FALSE,
                             !.request = request, !.body = body, !.nonce = nonce,
                             !.max_age = max_age, !.attestation = attestation,
                             !.stream = stream]
    BY DEF Relaxed
  <1> QED BY <1>1, <1>2 DEF OptionFields

(* The evidence of an accepted receipt does with less asked of it.         *)
LEMMA RelaxedEvidence ==
    ASSUME NEW r, NEW o, OptionsOK(o), NEW q \in Relaxed(o),
           AttestationError(r, o) = "none"
    PROVE  AttestationError(r, q) = "none"
  <1>1. /\ q.reachable = o.reachable /\ ~ q.require_attestation
        /\ q.attestation \in {o.attestation, NoDocument}
    BY RelaxedFields
  <1>2. \A d : VerifyGcp(d, r, q) = VerifyGcp(d, r, o)
    BY <1>1 DEF VerifyGcp
  <1> QED BY <1>1, <1>2 DEF AttestationError

(* So do the checks.                                                       *)
LEMMA RelaxedChecks ==
    ASSUME NEW r, NEW o, OptionsOK(o), NEW q \in Relaxed(o), OptionsHold(r, o)
    PROVE  OptionsHold(r, q)
  <1>1. /\ q.issuer = o.issuer /\ q.now = o.now
        /\ q.request \in {o.request, Absent} /\ q.body \in {o.body, Absent}
        /\ q.nonce \in {o.nonce, Absent} /\ q.max_age \in {o.max_age, None}
        /\ q.stream \in {o.stream, NoStream}
    BY RelaxedFields
  <1>2. NoStream.given = FALSE
    BY DEF NoStream
  <1>3. IssuerChecks(r, q) = IssuerChecks(r, o)
    BY <1>1 DEF IssuerChecks
  <1>4. AllHold(TimeChecks(r, q))
    <2> DEFINE a == Sound(r, "iat", "time")
               b(p) == Check("time", r.iat <= SaturatingAdd(p.now, FutureSkew))
               c(p) == Check("time", p.max_age = None \/ Age(r, p) <= p.max_age)
    <2>1. \A p : TimeChecks(r, p) = << a, b(p), c(p) >>
      BY DEF TimeChecks
    <2>2. b(q) = b(o)
      BY <1>1
    <2>3. a.class # "none" /\ \A p : b(p).class # "none" /\ c(p).class # "none"
      BY DEF Sound, Check
    <2>4. Age(r, q) = Age(r, o)
      BY <1>1 DEF Age
    <2>5. c(o).holds => c(q).holds
      BY <1>1, <2>4, ZenonT(30) DEF Check
    <2> HIDE DEF a, b, c
    <2>6. a.holds /\ b(o).holds /\ c(o).holds
      BY <2>1, <2>3, ThreeChecks DEF OptionsHold
    <2>7. AllHold(<< a, b(q), c(q) >>)
      BY <2>2, <2>3, <2>5, <2>6, ThreeChecks
    <2> QED BY <2>1, <2>7
  <1>5. AllHold(NonceChecks(r, q))
    <2> DEFINE a == Sound(r, "nonce", "nonce")
               b(p) == Check("nonce", NonceMatches(r, p))
    <2>1. \A p : NonceChecks(r, p) = << a, b(p) >>
      BY DEF NonceChecks
    <2>2. a.class # "none" /\ \A p : b(p).class # "none"
      BY DEF Sound, Check
    <2>3. b(o).holds => b(q).holds
      BY <1>1, ZenonT(30) DEF Check, NonceMatches
    <2> HIDE DEF a, b
    <2>4. a.holds /\ b(o).holds
      BY <2>1, <2>2, TwoChecks DEF OptionsHold
    <2>5. AllHold(<< a, b(q) >>)
      BY <2>2, <2>3, <2>4, TwoChecks
    <2> QED BY <2>1, <2>5
  <1>6. AllHold(RequestChecks(r, q))
    <2> DEFINE a == Sound(r, "req", "hash")
               b(p) == Check("hash", p.request # Absent => r.req = p.request)
    <2>1. \A p : RequestChecks(r, p) = << a, b(p) >>
      BY DEF RequestChecks
    <2>2. a.class # "none" /\ \A p : b(p).class # "none"
      BY DEF Sound, Check
    <2>3. b(o).holds => b(q).holds
      BY <1>1, ZenonT(30) DEF Check
    <2> HIDE DEF a, b
    <2>4. a.holds /\ b(o).holds
      BY <2>1, <2>2, TwoChecks DEF OptionsHold
    <2>5. AllHold(<< a, b(q) >>)
      BY <2>2, <2>3, <2>4, TwoChecks
    <2> QED BY <2>1, <2>5
  <1>7. ~ (q.body # Absent /\ q.stream.given) /\ ResponseMatches(r, q)
    BY <1>1, <1>2, ZenonT(30) DEF OptionsHold, ResponseMatches
  <1> QED BY <1>1, <1>3, <1>4, <1>5, <1>6, <1>7 DEF OptionsHold

(* Hence a receipt that is accepted stays so with fewer expectations.      *)
LEMMA RelaxedAccepted ==
    ASSUME NEW r, NEW o, OptionsOK(o), VerifyReceiptWith(r, o) = "none",
           NEW q \in Relaxed(o)
    PROVE  VerifyReceiptWith(r, q) = "none"
  <1>1. /\ ReceiptHolds(r) /\ OptionsHold(r, o)
        /\ AttestationError(r, o) = "none"
    BY AcceptedWhen
  <1>2. OptionsHold(r, q) /\ AttestationError(r, q) = "none"
    BY <1>1, RelaxedChecks, RelaxedEvidence
  <1>3. TrafficBound(q)
    BY RelaxedFields DEF TrafficBound
  <1> QED BY <1>1, <1>2, <1>3, AcceptedWhen
(* Opting out changes what a check finds only where evidence is missing.   *)
LEMMA OptingOut ==
    ASSUME NEW r, NEW o, OptionsOK(o), NEW q,
           q = [o EXCEPT !.require_bindings = FALSE, !.require_attestation = FALSE],
           VerifyReceiptWith(r, o) # "none", VerifyReceiptWith(r, q) = "none"
    PROVE  \/ VerifyReceiptWith(r, o) = "missing_binding"
           \/ /\ VerifyReceiptWith(r, o) = "missing_attestation"
              /\ ~ r.flattened /\ o.attestation = NoDocument
  <1>1. DOMAIN o = OptionFields
    BY DEF OptionsOK
  <1>2. /\ q.issuer = o.issuer /\ q.now = o.now /\ q.reachable = o.reachable
        /\ q.request = o.request /\ q.body = o.body /\ q.stream = o.stream
        /\ q.nonce = o.nonce /\ q.max_age = o.max_age
        /\ q.attestation = o.attestation /\ ~ q.require_attestation
    BY <1>1 DEF OptionFields
  <1>3. ReceiptHolds(r) /\ OptionsHold(r, q) /\ AttestationError(r, q) = "none"
    BY AcceptedWhen
  <1>4. /\ IssuerChecks(r, o) = IssuerChecks(r, q)
        /\ NonceChecks(r, o) = NonceChecks(r, q)
        /\ RequestChecks(r, o) = RequestChecks(r, q)
        /\ ResponseMatches(r, o) <=> ResponseMatches(r, q)
    BY <1>2, ZenonT(30) DEF IssuerChecks, NonceChecks, NonceMatches, RequestChecks,
                            ResponseMatches
  <1>5. TimeChecks(r, o) = TimeChecks(r, q)
    BY <1>2, ZenonT(30) DEF TimeChecks, Age
  <1>6. OptionsHold(r, o)
    BY <1>2, <1>3, <1>4, <1>5, ZenonT(30) DEF OptionsHold
  <1>7. CASE ~ TrafficBound(o)
    BY <1>7, AcceptedWhen
  <1>8. CASE TrafficBound(o)
    <2>1. AttestationError(r, o) # "none" /\ VerifyReceiptWith(r, o) = AttestationError(r, o)
      BY <1>3, <1>6, <1>8, AcceptedWhen
    <2>2. \A d : VerifyGcp(d, r, q) = VerifyGcp(d, r, o)
      BY <1>2, ZenonT(30) DEF VerifyGcp
    <2> QED BY <1>2, <1>3, <2>1, <2>2 DEF AttestationError
  <1> QED BY <1>7, <1>8

(* Only a compact receipt without its evidence is accepted unverified.     *)
LEMMA UnverifiedOnlyOnRequest ==
    ASSUME NEW r, NEW o, VerifyReceiptWith(r, o) = "none",
           AttestationStatus(r, o) # "verified"
    PROVE  ~ r.flattened /\ o.attestation = NoDocument /\ ~ o.require_attestation
  <1>1. AttestationError(r, o) = "none"
    BY AcceptedWhen
  <1> QED BY <1>1 DEF AttestationStatus, AttestationError

-----------------------------------------------------------------------------
(*                        The digest of a stream                           *)

EventOK(e) == e.kind \in EventKinds

Text == {e.name : e \in Events} \cup {e.payload : e \in Events}

DigestType ==
    [ok : BOOLEAN, saw_done : BOOLEAN, saw_receipt : BOOLEAN, lines : Seq(Text),
     events : Nat]

Fresh == [ok |-> TRUE, saw_done |-> FALSE, saw_receipt |-> FALSE,
          lines |-> << >>, events |-> 0]

(* DigestTrace is the function its equation describes: stream_digest's     *)
(* loop, seen after every event.                                           *)
LEMMA DigestLoop ==
    ASSUME NEW events \in Seq(Events), NEW domain, NEW expected
    PROVE  LET acc == DigestTrace(events, domain, expected)
           IN  /\ acc[0] = Fresh
               /\ \A n \in 1 .. Len(events) :
                     acc[n] = DigestEvent(acc[n - 1], events[n], domain, expected)
  <1> DEFINE Step(a, n) == DigestEvent(a, events[n], domain, expected)
             Loop(f, k) == f = [n \in 0 .. k |-> IF n = 0 THEN Fresh
                                                 ELSE Step(f[n - 1], n)]
             T == {k \in Nat : \E f : Loop(f, k)}
  <1>1. 0 \in T
    <2> DEFINE f == [n \in 0 .. 0 |-> Fresh]
    <2>1. f = [n \in 0 .. 0 |-> IF n = 0 THEN Fresh ELSE Step(f[n - 1], n)]
      OBVIOUS
    <2> QED BY <2>1, ZenonT(30)
  <1>2. ASSUME NEW k \in T PROVE k + 1 \in T
    <2>1. PICK f : Loop(f, k)
      BY <1>2
    <2> DEFINE g == [n \in 0 .. k + 1 |-> IF n = k + 1 THEN Step(f[k], n) ELSE f[n]]
    <2> HIDE DEF Step
    <2>2. \A n \in 0 .. k + 1 : g[n] = IF n = 0 THEN Fresh ELSE Step(g[n - 1], n)
      <3>1. k \in Nat
        BY <1>2
      <3>2. \A n \in 0 .. k : f[n] = IF n = 0 THEN Fresh ELSE Step(f[n - 1], n)
        BY <2>1
      <3>3. \A n \in 0 .. k : g[n] = f[n]
        BY <3>1
      <3>4. g[k + 1] = Step(f[k], k + 1)
        BY <3>1
      <3> HIDE DEF g
      <3>5. SUFFICES ASSUME NEW n \in 0 .. k + 1
                     PROVE  g[n] = IF n = 0 THEN Fresh ELSE Step(g[n - 1], n)
        OBVIOUS
      <3>6. CASE n = k + 1
        BY <3>1, <3>3, <3>4, <3>6
      <3>7. CASE n \in 0 .. k
        <4>1. n # 0 => n - 1 \in 0 .. k
          BY <3>1
        <4> QED BY <3>2, <3>3, <3>7, <4>1
      <3> QED BY <3>1, <3>6, <3>7
    <2>3. Loop(g, k + 1)
      <3>1. g = [n \in 0 .. k + 1 |-> g[n]]
        OBVIOUS
      <3> HIDE DEF g
      <3> QED BY <2>2, <3>1, ZenonT(30)
    <2>4. k + 1 \in Nat
      BY <1>2
    <2> HIDE DEF Loop, g
    <2> QED BY <2>3, <2>4
  <1>3. T = Nat
    <2> HIDE DEF T
    <2>1. T \in SUBSET Nat
      BY DEF T
    <2> QED BY <1>1, <1>2, <2>1, NumberInduction
  <1>4. Len(events) \in Nat
    OBVIOUS
  <1>5. \E f : Loop(f, Len(events))
    BY <1>3, <1>4
  <1> DEFINE acc == DigestTrace(events, domain, expected)
  <1>6. acc = CHOOSE f : Loop(f, Len(events))
    BY DEF DigestTrace, Fresh
  <1>7. Loop(acc, Len(events))
    <2> HIDE DEF Loop, acc
    <2> QED BY <1>5, <1>6
  <1> HIDE DEF acc, Step
  <1>8. \A n \in 0 .. Len(events) : acc[n] = IF n = 0 THEN Fresh ELSE Step(acc[n - 1], n)
    BY <1>7
  <1> QED BY <1>4, <1>8 DEF acc, Step
Lines(e, domain) ==
    IF domain = "sse-events-v1" THEN << e.name, e.payload >> ELSE << e.payload >>

(* What one event does to the digest: it fails, or it closes the stream,   *)
(* or it is the receipt, or its lines are taken in.                        *)
LEMMA DigestStep ==
    ASSUME NEW a \in DigestType, NEW e \in Events, NEW domain, NEW expected
    PROVE  LET q == DigestEvent(a, e, domain, expected)
           IN  /\ q \in DigestType
               /\ q.ok => a.ok /\ ~ a.saw_done /\ e.kind # "rejected"
               /\ a.ok /\ ~ a.saw_done /\ e.kind = "done" =>
                     /\ q.ok /\ q.saw_done /\ q.saw_receipt = a.saw_receipt
                     /\ q.lines = a.lines /\ q.events = a.events
               /\ a.ok /\ ~ a.saw_done /\ e.kind = "receipt" =>
                     /\ q.ok <=> ~ a.saw_receipt /\ e.payload = expected
                     /\ ~ q.saw_done /\ q.saw_receipt
                     /\ q.lines = a.lines /\ q.events = a.events
               /\ a.ok /\ ~ a.saw_done /\ e.kind = "data" =>
                     /\ q.ok <=> /\ ~ a.saw_receipt
                                 /\ domain = "sse-data-v1" => e.name = Absent
                     /\ ~ q.saw_done /\ q.saw_receipt = a.saw_receipt
                     /\ q.lines = a.lines \o Lines(e, domain) /\ q.events = a.events + 1
  <1> DEFINE q == DigestEvent(a, e, domain, expected)
  <1>1. e.kind \in EventKinds /\ e.name \in Text /\ e.payload \in Text
    BY EventsAssumption DEF Text
  <1>2. CASE ~ a.ok
    <2>1. q = a
      BY <1>2 DEF DigestEvent
    <2> QED BY <1>2, <2>1
  <1>3. CASE a.ok /\ (e.kind = "rejected" \/ a.saw_done)
    <2>1. q = [a EXCEPT !.ok = FALSE]
      BY <1>3 DEF DigestEvent
    <2> QED BY <1>3, <2>1, ZenonT(30) DEF DigestType
  <1>4. CASE a.ok /\ ~ a.saw_done /\ e.kind = "done"
    <2>1. q = [a EXCEPT !.saw_done = TRUE]
      BY <1>4 DEF DigestEvent, TakeEvent
    <2> QED BY <1>4, <2>1, ZenonT(30) DEF DigestType
  <1>5. CASE a.ok /\ ~ a.saw_done /\ e.kind = "receipt"
    <2>1. q = [a EXCEPT !.ok = ~ a.saw_receipt /\ e.payload = expected,
                        !.saw_receipt = TRUE]
      BY <1>5 DEF DigestEvent, TakeEvent
    <2> QED BY <1>5, <2>1, ZenonT(30) DEF DigestType
  <1>6. CASE a.ok /\ ~ a.saw_done /\ e.kind = "data"
    <2>1. q = [a EXCEPT !.ok = ~ a.saw_receipt
                                 /\ (domain = "sse-data-v1" => e.name = Absent),
                        !.lines = @ \o Lines(e, domain),
                        !.events = @ + 1]
      BY <1>6 DEF DigestEvent, TakeEvent, Lines
    <2>2. Lines(e, domain) \in Seq(Text)
      BY <1>1 DEF Lines
    <2>3. a.lines \o Lines(e, domain) \in Seq(Text)
      BY <2>2 DEF DigestType
    <2>4. /\ q.lines = a.lines \o Lines(e, domain) /\ q.events = a.events + 1
          /\ q.ok <=> ~ a.saw_receipt /\ (domain = "sse-data-v1" => e.name = Absent)
          /\ q.saw_done = a.saw_done /\ q.saw_receipt = a.saw_receipt
      BY <2>1, ZenonT(30) DEF DigestType
    <2>5. q \in DigestType
      <3>1. ASSUME NEW ok \in BOOLEAN, NEW lines \in Seq(Text), NEW events \in Nat
            PROVE  [a EXCEPT !.ok = ok, !.lines = lines, !.events = events] \in DigestType
        BY ZenonT(30) DEF DigestType
      <3>2. /\ (~ a.saw_receipt /\ (domain = "sse-data-v1" => e.name = Absent)) \in BOOLEAN
            /\ a.events + 1 \in Nat
        BY DEF DigestType
      <3> HIDE DEF DigestType
      <3> QED BY <2>1, <2>3, <3>1, <3>2, ZenonT(30)
    <2> HIDE DEF q
    <2>6. e.kind # "receipt" /\ e.kind # "done" /\ e.kind # "rejected"
      BY <1>6
    <2> QED BY <1>6, <2>4, <2>5, <2>6 DEF q
  <1>7. e.kind \in {"data", "receipt", "done", "rejected"}
    BY <1>1 DEF EventKinds
  <1> HIDE DEF q
  <1>8. \/ ~ a.ok
        \/ a.ok /\ (e.kind = "rejected" \/ a.saw_done)
        \/ a.ok /\ ~ a.saw_done /\ e.kind = "done"
        \/ a.ok /\ ~ a.saw_done /\ e.kind = "receipt"
        \/ a.ok /\ ~ a.saw_done /\ e.kind = "data"
    BY <1>7
  <1> QED BY <1>2, <1>3, <1>4, <1>5, <1>6, <1>8 DEF q

(* The receipt event of an open digest ...                                 *)
LEMMA DigestReceipt ==
    ASSUME NEW a \in DigestType, NEW e \in Events, NEW domain, NEW expected,
           a.ok, ~ a.saw_done, ~ a.saw_receipt, e.kind = "receipt", e.payload = expected
    PROVE  LET q == DigestEvent(a, e, domain, expected)
           IN  q.ok /\ ~ q.saw_done /\ q.saw_receipt
  BY DigestStep, SMTT(30)

(* ... and its [DONE].                                                     *)
LEMMA DigestDone ==
    ASSUME NEW a \in DigestType, NEW e \in Events, NEW domain, NEW expected,
           a.ok, ~ a.saw_done, a.saw_receipt, e.kind = "done"
    PROVE  LET q == DigestEvent(a, e, domain, expected)
           IN  q.ok /\ q.saw_done /\ q.saw_receipt
  BY DigestStep, SMTT(30)

(* A data event leaves it open.                                            *)
LEMMA DigestData ==
    ASSUME NEW a \in DigestType, NEW e \in Events, NEW domain, NEW expected,
           a.ok, ~ a.saw_done, ~ a.saw_receipt, e.kind = "data",
           domain = "sse-data-v1" => e.name = Absent
    PROVE  LET q == DigestEvent(a, e, domain, expected)
           IN  q.ok /\ ~ q.saw_done /\ ~ q.saw_receipt
  BY DigestStep, SMTT(30)

(* The first n events are what may precede the receipt.                    *)
DataUpTo(events, domain, n) ==
    \A i \in 1 .. n : /\ events[i].kind = "data"
                      /\ domain = "sse-data-v1" => events[i].name = Absent

(* A pair after a sequence.                                                *)
LEMMA PairJoined ==
    ASSUME NEW S, NEW s \in Seq(S), NEW a \in S, NEW b \in S
    PROVE  LET both == s \o << a, b >>
           IN  /\ Len(both) = Len(s) + 2
               /\ \A i \in 1 .. Len(s) : both[i] = s[i]
               /\ both[Len(s) + 1] = a /\ both[Len(s) + 2] = b
  <1> DEFINE t == << a, b >>
             both == s \o t
  <1>1. t \in Seq(S) /\ Len(t) = 2 /\ t[1] = a /\ t[2] = b
    OBVIOUS
  <1> HIDE DEF t
  <1>2. /\ Len(s) \in Nat /\ Len(both) = Len(s) + Len(t)
        /\ \A i \in 1 .. Len(s) : both[i] = s[i]
        /\ \A i \in 1 .. Len(t) : both[Len(s) + i] = t[i]
    <2>1. t \in Seq(S)
      BY <1>1
    <2>2. Len(s) \in Nat /\ Len(t) \in Nat /\ Len(both) = Len(s) + Len(t)
      BY <2>1
    <2>3. \A i \in 1 .. Len(s) : both[i] = s[i]
      BY <2>1
    <2>4. \A i \in Len(s) + 1 .. Len(s) + Len(t) : both[i] = t[i - Len(s)]
      BY <2>1
    <2> HIDE DEF both
    <2>5. \A i \in 1 .. Len(t) : both[Len(s) + i] = t[i]
      BY <2>2, <2>4
    <2> QED BY <2>2, <2>3, <2>5
  <1>3. 1 \in 1 .. Len(t) /\ 2 \in 1 .. Len(t)
    BY <1>1
  <1> HIDE DEF both
  <1>4. /\ Len(both) = Len(s) + 2
        /\ \A i \in 1 .. Len(s) : both[i] = s[i]
        /\ both[Len(s) + 1] = a /\ both[Len(s) + 2] = b
    BY <1>1, <1>2, <1>3
  <1> QED BY <1>4 DEF both, t

(* The lines of one more event transcribe one event more.                  *)
LEMMA TranscribesOneMore ==
    ASSUME NEW lines \in Seq(Text), NEW events \in Seq(Events), NEW domain,
           NEW n \in Nat, n + 1 <= Len(events), Transcribes(lines, events, n, domain)
    PROVE  Transcribes(lines \o Lines(events[n + 1], domain), events, n + 1, domain)
  <1> DEFINE e == events[n + 1]
  <1>1. e.name \in Text /\ e.payload \in Text
    BY DEF Text
  <1>2. CASE domain = "sse-events-v1"
    <2> DEFINE more == << e.name, e.payload >>
               both == lines \o more
    <2>1. more \in Seq(Text) /\ Len(more) = 2 /\ more[1] = e.name /\ more[2] = e.payload
      BY <1>1
    <2>2. Len(lines) = 2 * n
      BY <1>2 DEF Transcribes
    <2> HIDE DEF more
    <2>3. /\ Len(both) = 2 * n + 2
          /\ \A i \in 1 .. 2 * n : both[i] = lines[i]
          /\ both[2 * n + 1] = more[1] /\ both[2 * n + 2] = more[2]
      <3>1. /\ Len(both) = Len(lines) + 2
            /\ \A i \in 1 .. Len(lines) : both[i] = lines[i]
            /\ both[Len(lines) + 1] = e.name /\ both[Len(lines) + 2] = e.payload
        BY <1>1, PairJoined DEF more
      <3> HIDE DEF both
      <3> QED BY <2>1, <2>2, <3>1
    <2> HIDE DEF both
    <2>4. \A i \in 1 .. n : /\ both[2 * i - 1] = events[i].name
                            /\ both[2 * i] = events[i].payload
      <3>1. \A i \in 1 .. n : 2 * i - 1 \in 1 .. 2 * n /\ 2 * i \in 1 .. 2 * n
        OBVIOUS
      <3>2. \A i \in 1 .. n : lines[2 * i - 1] = events[i].name
                              /\ lines[2 * i] = events[i].payload
        BY <1>2 DEF Transcribes
      <3> QED BY <2>3, <3>1, <3>2
    <2>5. /\ both[2 * (n + 1) - 1] = events[n + 1].name
          /\ both[2 * (n + 1)] = events[n + 1].payload
          /\ Len(both) = 2 * (n + 1)
      <3>1. 2 * (n + 1) - 1 = 2 * n + 1 /\ 2 * (n + 1) = 2 * n + 2
        OBVIOUS
      <3> QED BY <2>1, <2>3, <3>1
    <2>6. \A i \in 1 .. n + 1 : i \in 1 .. n \/ i = n + 1
      OBVIOUS
    <2>7. \A i \in 1 .. n + 1 : /\ both[2 * i - 1] = events[i].name
                                /\ both[2 * i] = events[i].payload
      BY <2>4, <2>5, <2>6, ZenonT(30)
    <2>8. Transcribes(both, events, n + 1, domain)
      BY <1>2, <2>5, <2>7 DEF Transcribes
    <2> QED BY <1>2, <2>8 DEF Lines, both, more
  <1>3. CASE domain # "sse-events-v1"
    <2> DEFINE both == lines \o << e.payload >>
    <2>1. Len(lines) = n /\ \A i \in 1 .. n : lines[i] = events[i].payload
      BY <1>3 DEF Transcribes
    <2>2. /\ Len(both) = n + 1 /\ both[n + 1] = e.payload
          /\ \A i \in 1 .. n : both[i] = lines[i]
      BY <1>1, <2>1
    <2> HIDE DEF both
    <2>3. \A i \in 1 .. n + 1 : i \in 1 .. n \/ i = n + 1
      OBVIOUS
    <2>4. Transcribes(both, events, n + 1, domain)
      BY <1>3, <2>1, <2>2, <2>3 DEF Transcribes
    <2> QED BY <1>3, <2>4 DEF Lines, both
  <1> QED BY <1>2, <1>3

(* The receipt that seals the first m events.                              *)
Sealed(a, events, domain, expected, m) ==
    /\ DataUpTo(events, domain, m)
    /\ a.events = m /\ Transcribes(a.lines, events, m, domain)
    /\ events[m + 1].kind = "receipt" /\ events[m + 1].payload = expected

(* Where an accumulator that has not failed stands after n events.         *)
StandsAt(a, events, domain, expected, n) ==
    \/ /\ ~ a.saw_done /\ ~ a.saw_receipt
       /\ DataUpTo(events, domain, n)
       /\ a.events = n /\ Transcribes(a.lines, events, n, domain)
    \/ /\ ~ a.saw_done /\ a.saw_receipt
       /\ n >= 1 /\ Sealed(a, events, domain, expected, n - 1)
    \/ a.saw_done /\ ~ a.saw_receipt
    \/ /\ a.saw_done /\ a.saw_receipt
       /\ n >= 2 /\ Sealed(a, events, domain, expected, n - 2)
       /\ events[n].kind = "done"

(* One more event keeps it so.                                             *)
LEMMA StandsAtNext ==
    ASSUME NEW events \in Seq(Events), NEW domain, NEW expected,
           NEW n \in 1 .. Len(events), NEW a \in DigestType,
           a.ok => StandsAt(a, events, domain, expected, n - 1)
    PROVE  LET q == DigestEvent(a, events[n], domain, expected)
           IN  q.ok => StandsAt(q, events, domain, expected, n)
  <1> DEFINE e == events[n]
             q == DigestEvent(a, e, domain, expected)
  <1>1. SUFFICES ASSUME q.ok PROVE StandsAt(q, events, domain, expected, n)
    OBVIOUS
  <1>2. e \in Events /\ n - 1 \in Nat /\ n \in Nat /\ (n - 1) + 1 = n
    OBVIOUS
  <1>3. e.kind \in {"data", "receipt", "done"} /\ a.ok /\ ~ a.saw_done
    BY <1>1, <1>2, DigestStep, EventsAssumption DEF EventKinds
  <1>4. StandsAt(a, events, domain, expected, n - 1)
    BY <1>3
  <1>5. CASE e.kind = "data"
    <2>1. /\ ~ a.saw_receipt /\ (domain = "sse-data-v1" => e.name = Absent)
          /\ ~ q.saw_done /\ ~ q.saw_receipt
          /\ q.lines = a.lines \o Lines(e, domain) /\ q.events = a.events + 1
      <3>1. /\ q.ok <=> /\ ~ a.saw_receipt
                        /\ domain = "sse-data-v1" => e.name = Absent
            /\ ~ q.saw_done /\ q.saw_receipt = a.saw_receipt
            /\ q.lines = a.lines \o Lines(e, domain) /\ q.events = a.events + 1
        BY <1>2, <1>3, <1>5, DigestStep, ZenonT(30)
      <3> HIDE DEF q
      <3> QED BY <1>1, <3>1, ZenonT(30)
    <2>2. /\ DataUpTo(events, domain, n - 1)
          /\ a.events = n - 1 /\ Transcribes(a.lines, events, n - 1, domain)
      BY <1>3, <1>4, <2>1 DEF StandsAt
    <2>3. DataUpTo(events, domain, n)
      <3>1. \A i \in 1 .. n : i \in 1 .. n - 1 \/ i = n
        BY <1>2
      <3> QED BY <1>5, <2>1, <2>2, <3>1 DEF DataUpTo
    <2>4. Transcribes(q.lines, events, n, domain)
      <3>1. a.lines \in Seq(Text)
        BY DEF DigestType
      <3>2. (n - 1) + 1 <= Len(events)
        OBVIOUS
      <3>3. Transcribes(a.lines \o Lines(events[(n - 1) + 1], domain), events,
                        (n - 1) + 1, domain)
        BY <1>2, <2>2, <3>1, <3>2, TranscribesOneMore
      <3> QED BY <1>2, <2>1, <3>3
    <2>5. q.events = n
      BY <1>2, <2>1, <2>2
    <2> HIDE DEF q
    <2> QED BY <2>1, <2>3, <2>4, <2>5 DEF StandsAt
  <1>6. CASE e.kind = "receipt"
    <2>1. /\ ~ a.saw_receipt /\ e.payload = expected
          /\ ~ q.saw_done /\ q.saw_receipt
          /\ q.lines = a.lines /\ q.events = a.events
      BY <1>1, <1>2, <1>3, <1>6, DigestStep
    <2>2. /\ DataUpTo(events, domain, n - 1)
          /\ a.events = n - 1 /\ Transcribes(a.lines, events, n - 1, domain)
      BY <1>3, <1>4, <2>1 DEF StandsAt
    <2> HIDE DEF q
    <2>3. Sealed(q, events, domain, expected, n - 1)
      BY <1>2, <1>6, <2>1, <2>2 DEF Sealed
    <2> QED BY <1>2, <2>1, <2>3 DEF StandsAt
  <1>7. CASE e.kind = "done"
    <2>1. /\ q.saw_done /\ q.saw_receipt = a.saw_receipt
          /\ q.lines = a.lines /\ q.events = a.events
      BY <1>1, <1>2, <1>3, <1>7, DigestStep
    <2> HIDE DEF q
    <2>2. CASE a.saw_receipt
      <3>1. n - 1 >= 1 /\ Sealed(a, events, domain, expected, (n - 1) - 1)
        BY <1>3, <1>4, <2>2 DEF StandsAt
      <3>2. n >= 2 /\ (n - 1) - 1 = n - 2
        BY <1>2, <3>1
      <3>3. Sealed(q, events, domain, expected, n - 2)
        BY <2>1, <3>1, <3>2 DEF Sealed
      <3> QED BY <1>7, <2>1, <2>2, <3>2, <3>3 DEF StandsAt
    <2>3. CASE ~ a.saw_receipt
      BY <2>1, <2>3 DEF StandsAt
    <2> QED BY <2>2, <2>3
  <1> QED BY <1>3, <1>5, <1>6, <1>7

(* So the digest of any prefix is accounted for.                           *)
LEMMA DigestSound ==
    ASSUME NEW events \in Seq(Events), NEW domain, NEW expected
    PROVE  LET acc == DigestTrace(events, domain, expected)
           IN  \A n \in 0 .. Len(events) :
                  /\ acc[n] \in DigestType
                  /\ acc[n].ok => StandsAt(acc[n], events, domain, expected, n)
  <1> DEFINE acc == DigestTrace(events, domain, expected)
             P(n) == /\ acc[n] \in DigestType
                     /\ acc[n].ok => StandsAt(acc[n], events, domain, expected, n)
             T == {n \in Nat : n <= Len(events) => P(n)}
  <1>1. /\ acc[0] = Fresh
        /\ \A n \in 1 .. Len(events) :
              acc[n] = DigestEvent(acc[n - 1], events[n], domain, expected)
    BY DigestLoop
  <1> HIDE DEF acc
  <1>2. 0 \in T
    <2>1. Fresh \in DigestType
      BY DEF Fresh, DigestType
    <2>2. /\ ~ Fresh.saw_done /\ ~ Fresh.saw_receipt /\ Fresh.events = 0
          /\ Fresh.lines = << >>
      BY DEF Fresh
    <2>3. DataUpTo(events, domain, 0)
      BY DEF DataUpTo
    <2>4. Transcribes(<< >>, events, 0, domain)
      BY DEF Transcribes
    <2>5. StandsAt(Fresh, events, domain, expected, 0)
      BY <2>2, <2>3, <2>4 DEF StandsAt
    <2> QED BY <1>1, <2>1, <2>5
  <1>3. ASSUME NEW k \in T PROVE k + 1 \in T
    <2>1. SUFFICES ASSUME k + 1 <= Len(events) PROVE P(k + 1)
      BY <1>3
    <2>2. k \in Nat /\ k + 1 \in 1 .. Len(events) /\ (k + 1) - 1 = k /\ P(k)
      BY <1>3, <2>1
    <2>3. acc[k + 1] = DigestEvent(acc[k], events[k + 1], domain, expected)
      BY <1>1, <2>2
    <2>4. acc[k + 1] \in DigestType
      BY <2>2, <2>3, DigestStep
    <2>5. acc[k + 1].ok => StandsAt(acc[k + 1], events, domain, expected, k + 1)
      BY <2>2, <2>3, StandsAtNext, ZenonT(30)
    <2> QED BY <2>4, <2>5
  <1>4. T = Nat
    <2> HIDE DEF T
    <2>1. T \in SUBSET Nat
      BY DEF T
    <2> QED BY <1>2, <1>3, <2>1, NumberInduction
  <1>5. ASSUME NEW n \in 0 .. Len(events) PROVE P(n)
    BY <1>4
  <1> QED BY <1>5 DEF acc

(* Data events alone leave the digest open.                                *)
LEMMA DataKeepsOpen ==
    ASSUME NEW events \in Seq(Events), NEW domain, NEW expected,
           NEW m \in 0 .. Len(events), DataUpTo(events, domain, m)
    PROVE  LET acc == DigestTrace(events, domain, expected)
           IN  acc[m].ok /\ ~ acc[m].saw_done /\ ~ acc[m].saw_receipt
  <1> DEFINE acc == DigestTrace(events, domain, expected)
             Open(n) == acc[n].ok /\ ~ acc[n].saw_done /\ ~ acc[n].saw_receipt
             T == {n \in Nat : n <= m => Open(n)}
  <1>1. /\ acc[0] = Fresh
        /\ \A n \in 1 .. Len(events) :
              acc[n] = DigestEvent(acc[n - 1], events[n], domain, expected)
    BY DigestLoop
  <1>2. \A n \in 0 .. Len(events) : acc[n] \in DigestType
    BY DigestSound
  <1> HIDE DEF acc
  <1>3. 0 \in T
    BY <1>1 DEF Fresh
  <1>4. ASSUME NEW k \in T PROVE k + 1 \in T
    <2>1. SUFFICES ASSUME k + 1 <= m PROVE Open(k + 1)
      BY <1>4
    <2>2. /\ k \in 0 .. Len(events) /\ k + 1 \in 1 .. Len(events)
          /\ k + 1 \in 1 .. m /\ (k + 1) - 1 = k /\ Open(k)
      BY <1>4, <2>1
    <2>3. acc[k + 1] = DigestEvent(acc[k], events[k + 1], domain, expected)
      BY <1>1, <2>2
    <2>4. /\ events[k + 1].kind = "data" /\ events[k + 1] \in Events
          /\ domain = "sse-data-v1" => events[k + 1].name = Absent
      BY <2>2 DEF DataUpTo
    <2>5. acc[k] \in DigestType /\ Open(k)
      BY <1>2, <2>2
    <2> QED BY <2>3, <2>4, <2>5, DigestData, ZenonT(30)
  <1>5. T = Nat
    <2> HIDE DEF T
    <2>1. T \in SUBSET Nat
      BY DEF T
    <2> QED BY <1>3, <1>4, <2>1, NumberInduction
  <1>6. Open(m)
    BY <1>5
  <1> QED BY <1>6 DEF acc

(* The digest of a whole stream exists exactly if the stream is signed,    *)
(* and is taken of its data events.                                        *)
LEMMA DigestOfSigned ==
    ASSUME NEW stream, stream.events \in Seq(Events), NEW domain, NEW id
    PROVE  LET digest == StreamDigest(stream, domain, id)
               n == Len(stream.events) - 2
           IN  /\ digest.ok <=> Signed(stream, domain, id)
               /\ digest.ok => /\ digest.events = n
                               /\ Transcribes(digest.lines, stream.events, n, domain)
  <1> DEFINE events == stream.events
             acc == DigestTrace(events, domain, id)
             last == acc[Len(events)]
             digest == StreamDigest(stream, domain, id)
             n == Len(events) - 2
  <1>1. Len(events) \in Nat /\ Len(events) \in 0 .. Len(events)
    OBVIOUS
  <1>2. /\ last \in DigestType
        /\ last.ok => StandsAt(last, events, domain, id, Len(events))
    BY <1>1, DigestSound
  <1>3. digest = [last EXCEPT !.ok = last.ok /\ ~ stream.partial /\ last.saw_receipt
                                       /\ last.saw_done]
    BY DEF StreamDigest
  <1>4. /\ digest.ok <=> last.ok /\ ~ stream.partial /\ last.saw_receipt /\ last.saw_done
        /\ digest.events = last.events /\ digest.lines = last.lines
    <2> HIDE DEF last, digest
    <2> QED BY <1>2, <1>3, ZenonT(30) DEF DigestType
  <1>5. ASSUME digest.ok
        PROVE  /\ Signed(stream, domain, id) /\ digest.events = n
               /\ Transcribes(digest.lines, events, n, domain)
    <2> HIDE DEF digest, last
    <2>1. /\ Len(events) >= 2 /\ Sealed(last, events, domain, id, n)
          /\ events[Len(events)].kind = "done" /\ ~ stream.partial
      BY <1>2, <1>4, <1>5 DEF StandsAt
    <2>2. n >= 0 /\ n + 2 = Len(events)
      BY <1>1, <2>1
    <2>3. /\ DataUpTo(events, domain, n) /\ last.events = n
          /\ Transcribes(last.lines, events, n, domain)
          /\ events[n + 1].kind = "receipt" /\ events[n + 1].payload = id
      BY <2>1 DEF Sealed
    <2>4. Signed(stream, domain, id)
      BY <2>1, <2>2, <2>3 DEF Signed, DataUpTo
    <2> QED BY <1>4, <2>3, <2>4
  <1>6. ASSUME Signed(stream, domain, id)
        PROVE  digest.ok
    <2>1. /\ n >= 0 /\ ~ stream.partial /\ DataUpTo(events, domain, n)
          /\ events[n + 1].kind = "receipt" /\ events[n + 1].payload = id
          /\ events[n + 2].kind = "done"
      BY <1>6 DEF Signed, DataUpTo
    <2>2. /\ n \in 0 .. Len(events) /\ n + 1 \in 1 .. Len(events)
          /\ n + 2 \in 1 .. Len(events) /\ n + 2 = Len(events)
          /\ (n + 1) - 1 = n /\ (n + 2) - 1 = n + 1
      BY <1>1, <2>1
    <2>3. /\ acc[n + 1] = DigestEvent(acc[n], events[n + 1], domain, id)
          /\ acc[n + 2] = DigestEvent(acc[n + 1], events[n + 2], domain, id)
      <3>1. \A k \in 1 .. Len(events) :
               acc[k] = DigestEvent(acc[k - 1], events[k], domain, id)
        BY DigestLoop, SMTT(30)
      <3> HIDE DEF acc, n, events
      <3> QED BY <2>2, <3>1
    <2>4. acc[n].ok /\ ~ acc[n].saw_done /\ ~ acc[n].saw_receipt
      BY <2>1, <2>2, DataKeepsOpen
    <2>5. acc[n] \in DigestType /\ acc[n + 1] \in DigestType
      BY <2>2, DigestSound
    <2>6. events[n + 1] \in Events /\ events[n + 2] \in Events
      BY <2>2
    <2> HIDE DEF acc, digest
    <2>7. acc[n + 1].ok /\ ~ acc[n + 1].saw_done /\ acc[n + 1].saw_receipt
      <3> HIDE DEF n, events
      <3> QED BY <2>1, <2>3, <2>4, <2>5, <2>6, DigestReceipt, ZenonT(30)
    <2>8. acc[n + 2].ok /\ acc[n + 2].saw_done /\ acc[n + 2].saw_receipt
      <3> HIDE DEF n, events
      <3> QED BY <2>1, <2>3, <2>5, <2>6, <2>7, DigestDone, ZenonT(30)
    <2> QED BY <1>4, <2>1, <2>2, <2>8
  <1> QED BY <1>5, <1>6
-----------------------------------------------------------------------------
(*                              The capture                                *)

(* No receipt follows event i.                                             *)
LastReceipt(events, i) ==
    /\ events[i].kind = "receipt"
    /\ \A j \in i + 1 .. Len(events) : events[j].kind # "receipt"

(* A scan of the events ends with the last receipt among them, whatever it *)
(* started with.                                                           *)
LEMMA ScanFindsTheLast ==
    ASSUME NEW events \in Seq(Events), NEW start,
           NEW i \in 1 .. Len(events), LastReceipt(events, i)
    PROVE  Scan(start, events) = events[i].payload
  <1> DEFINE Step(x, n) == Discovered(x, events[n])
             Loop(f, k) == f = [n \in 0 .. k |-> IF n = 0 THEN start
                                                 ELSE Step(f[n - 1], n)]
             T == {k \in Nat : \E f : Loop(f, k)}
  <1>1. 0 \in T
    <2> DEFINE f == [n \in 0 .. 0 |-> start]
    <2>1. f = [n \in 0 .. 0 |-> IF n = 0 THEN start ELSE Step(f[n - 1], n)]
      OBVIOUS
    <2> QED BY <2>1, ZenonT(30)
  <1>2. ASSUME NEW k \in T PROVE k + 1 \in T
    <2>1. PICK f : Loop(f, k)
      BY <1>2
    <2> DEFINE g == [n \in 0 .. k + 1 |-> IF n = k + 1 THEN Step(f[k], n) ELSE f[n]]
    <2> HIDE DEF Step
    <2>2. \A n \in 0 .. k + 1 : g[n] = IF n = 0 THEN start ELSE Step(g[n - 1], n)
      <3>1. k \in Nat
        BY <1>2
      <3>2. \A n \in 0 .. k : f[n] = IF n = 0 THEN start ELSE Step(f[n - 1], n)
        BY <2>1
      <3>3. \A n \in 0 .. k : g[n] = f[n]
        BY <3>1
      <3>4. g[k + 1] = Step(f[k], k + 1)
        BY <3>1
      <3> HIDE DEF g
      <3>5. SUFFICES ASSUME NEW n \in 0 .. k + 1
                     PROVE  g[n] = IF n = 0 THEN start ELSE Step(g[n - 1], n)
        OBVIOUS
      <3>6. CASE n = k + 1
        BY <3>1, <3>3, <3>4, <3>6
      <3>7. CASE n \in 0 .. k
        <4>1. n # 0 => n - 1 \in 0 .. k
          BY <3>1
        <4> QED BY <3>2, <3>3, <3>7, <4>1
      <3> QED BY <3>1, <3>6, <3>7
    <2>3. Loop(g, k + 1)
      <3>1. g = [n \in 0 .. k + 1 |-> g[n]]
        OBVIOUS
      <3> HIDE DEF g
      <3> QED BY <2>2, <3>1, ZenonT(30)
    <2>4. k + 1 \in Nat
      BY <1>2
    <2> HIDE DEF Loop, g
    <2> QED BY <2>3, <2>4
  <1>3. T = Nat
    <2> HIDE DEF T
    <2>1. T \in SUBSET Nat
      BY DEF T
    <2> QED BY <1>1, <1>2, <2>1, NumberInduction
  <1>4. Len(events) \in Nat
    OBVIOUS
  <1>5. \E f : Loop(f, Len(events))
    BY <1>3, <1>4
  <1> DEFINE found == CHOOSE f : Loop(f, Len(events))
  <1>6. Scan(start, events) = found[Len(events)]
    BY DEF Scan
  <1>7. Loop(found, Len(events))
    <2> HIDE DEF Loop
    <2> QED BY <1>5
  <1> HIDE DEF found
  <1>8. \A n \in 1 .. Len(events) : found[n] = Discovered(found[n - 1], events[n])
    BY <1>4, <1>7
  <1> DEFINE S == {k \in Nat : i + k <= Len(events) => found[i + k] = events[i].payload}
  <1>9. 0 \in S
    <2>1. found[i] = Discovered(found[i - 1], events[i])
      BY <1>8
    <2>2. found[i] = events[i].payload
      BY <2>1 DEF Discovered, LastReceipt
    <2> QED BY <2>2
  <1>10. ASSUME NEW k \in S PROVE k + 1 \in S
    <2>1. SUFFICES ASSUME i + (k + 1) <= Len(events)
                   PROVE  found[i + (k + 1)] = events[i].payload
      BY <1>10
    <2>2. /\ i + (k + 1) \in 1 .. Len(events) /\ i + (k + 1) \in i + 1 .. Len(events)
          /\ (i + (k + 1)) - 1 = i + k /\ found[i + k] = events[i].payload
      BY <1>10, <2>1
    <2>3. events[i + (k + 1)].kind # "receipt"
      BY <2>2 DEF LastReceipt
    <2>4. found[i + (k + 1)] = Discovered(found[i + k], events[i + (k + 1)])
      BY <1>8, <2>2
    <2> QED BY <2>2, <2>3, <2>4 DEF Discovered
  <1>11. S = Nat
    <2> HIDE DEF S
    <2>1. S \in SUBSET Nat
      BY DEF S
    <2> QED BY <1>9, <1>10, <2>1, NumberInduction
  <1>12. Len(events) - i \in Nat /\ i + (Len(events) - i) = Len(events)
    BY <1>4
  <1>13. Len(events) - i \in S
    BY <1>11, <1>12, ZenonT(30)
  <1>14. found[i + (Len(events) - i)] = events[i].payload
    BY <1>12, <1>13
  <1> QED BY <1>6, <1>12, <1>14

(* What always holds of a capture: it has found the last receipt of what   *)
(* it captured, and a verdict is verify_receipt_with's.                    *)
VerdictOK(v) ==
    /\ v = Answer(v.receipt, v.options)
    /\ OptionsOK(v.options) /\ v.options.stream.events \in Seq(Events)

CaptureInv ==
    /\ wire \in Seq(Events)
    /\ \A i \in 1 .. Len(wire) : LastReceipt(wire, i) => receipt = wire[i].payload
    /\ \A v \in verdict : VerdictOK(v)

(* An answer is a verdict.                                                 *)
LEMMA AnswersAreVerdicts ==
    ASSUME NEW r, NEW o, OptionsOK(o), o.stream.events \in Seq(Events)
    PROVE  VerdictOK(Answer(r, o))
  <1>1. Answer(r, o).receipt = r /\ Answer(r, o).options = o
    BY DEF Answer
  <1> QED BY <1>1 DEF VerdictOK

(* A capture starts so.                                                    *)
LEMMA InitCaptures == Init => CaptureInv
  BY DEF Init, CaptureInv

(* poll_next, verify and verify_receipt keep it so.                        *)
LEMMA NextCaptures == CaptureInv /\ [Next]_vars => CaptureInv'
  <1> SUFFICES ASSUME CaptureInv, [Next]_vars PROVE CaptureInv'
    OBVIOUS
  <1>1. ASSUME NEW added \in BoundedSeq(Events, MaxChunk), NEW rest \in BOOLEAN,
               Chunk(added, rest)
        PROVE  CaptureInv'
    <2>1. added \in Seq(Events)
      <3>1. PICK m \in 0 .. MaxChunk : added \in [1 .. m -> Events]
        BY CaptureAssumption DEF BoundedSeq, SeqOf
      <3>2. m \in Nat
        BY CaptureAssumption
      <3> QED BY <3>1, <3>2
    <2>2. wire' \in Seq(Events) /\ receipt' = Scan(receipt, wire') /\ verdict' = {}
      BY <1>1, <2>1 DEF Chunk, CaptureInv, RefreshReceipt
    <2>3. \A i \in 1 .. Len(wire') : LastReceipt(wire', i) => receipt' = wire'[i].payload
      BY <2>2, ScanFindsTheLast
    <2> QED BY <2>2, <2>3 DEF CaptureInv, LastReceipt
  <1>2. ASSUME NEW o \in Options, Verify(o)
        PROVE  CaptureInv'
    <2> DEFINE q == [o EXCEPT !.stream = Captured]
    <2>1. o = [f \in OptionFields |-> o[f]]
      BY OptionsAssumption DEF OptionsAssumption
    <2>2. OptionsOK(q) /\ q.stream = Captured
      BY <2>1 DEF OptionsOK, OptionFields
    <2>3. q.stream.events \in Seq(Events)
      BY <2>2 DEF Captured, CaptureInv
    <2>4. verdict' = {Answer(Named(receipt), q)} /\ UNCHANGED << wire, receipt >>
      BY <1>2 DEF Verify
    <2> HIDE DEF q
    <2>5. VerdictOK(Answer(Named(receipt), q))
      BY <2>2, <2>3, AnswersAreVerdicts
    <2>6. \A v \in verdict' : VerdictOK(v)
      BY <2>4, <2>5
    <2> QED BY <2>4, <2>6 DEF CaptureInv
  <1>3. ASSUME NEW r \in Known, NEW o \in OwnOptions, VerifyReceipt(r, o)
        PROVE  CaptureInv'
    <2>1. OptionsOK(o) /\ o.stream.events \in Seq(Events)
      BY OptionsAssumption DEF OptionsAssumption, OptionsOK
    <2>2. verdict' = {Answer(r, o)} /\ UNCHANGED << wire, receipt >>
      BY <1>3 DEF VerifyReceipt
    <2>3. VerdictOK(Answer(r, o))
      BY <2>1, AnswersAreVerdicts
    <2>4. \A v \in verdict' : VerdictOK(v)
      BY <2>2, <2>3
    <2> QED BY <2>2, <2>4 DEF CaptureInv
  <1>4. CASE UNCHANGED vars
    BY <1>4 DEF vars, CaptureInv
  <1> QED BY <1>1, <1>2, <1>3, <1>4 DEF Next
(* What was accepted holds up: the checks behind AcceptedIsWhatWasSigned.  *)
LEMMA AcceptedHolds ==
    ASSUME NEW r, NEW o, o.stream.events \in Seq(Events),
           VerifyReceiptWith(r, o) = "none"
    PROVE  /\ o.request # Absent => r.req = o.request
           /\ o.body # Absent => r.of = "body" /\ r.resp = << o.body >>
           /\ o.stream.given =>
                 /\ o.body = Absent /\ r.flattened
                 /\ Signed(o.stream, r.of, r.id)
                 /\ Transcribes(r.resp, o.stream.events, Len(o.stream.events) - 2, r.of)
           /\ o.require_bindings =>
                 o.request # Absent /\ (o.body # Absent \/ o.stream.given)
  <1>1. TrafficBound(o) /\ OptionsHold(r, o)
    BY AcceptedWhen
  <1>2. o.request # Absent => r.req = o.request
    <2> DEFINE a == Sound(r, "req", "hash")
               b == Check("hash", o.request # Absent => r.req = o.request)
    <2>1. RequestChecks(r, o) = << a, b >>
      BY DEF RequestChecks
    <2>2. a.class # "none" /\ b.class # "none"
      BY DEF Sound, Check
    <2>3. b.holds => (o.request # Absent => r.req = o.request)
      BY ZenonT(30) DEF Check
    <2> HIDE DEF a, b
    <2> QED BY <1>1, <2>1, <2>2, <2>3, TwoChecks DEF OptionsHold
  <1>3. ResponseMatches(r, o) /\ ~ (o.body # Absent /\ o.stream.given)
    BY <1>1 DEF OptionsHold
  <1>4. o.body # Absent => r.of = "body" /\ r.resp = << o.body >>
    BY <1>3 DEF ResponseMatches
  <1>5. ASSUME o.stream.given
        PROVE  /\ o.body = Absent /\ r.flattened
               /\ Signed(o.stream, r.of, r.id)
               /\ Transcribes(r.resp, o.stream.events, Len(o.stream.events) - 2, r.of)
    <2> DEFINE digest == StreamDigest(o.stream, r.of, Expected(r))
    <2>1. o.body = Absent
      BY <1>3, <1>5
    <2>2. digest.ok /\ digest.lines = r.resp
      BY <1>3, <1>5, <2>1 DEF ResponseMatches
    <2>3. /\ Signed(o.stream, r.of, Expected(r))
          /\ Transcribes(r.resp, o.stream.events, Len(o.stream.events) - 2, r.of)
      <3> HIDE DEF digest
      <3>1. /\ digest.ok <=> Signed(o.stream, r.of, Expected(r))
            /\ digest.ok => Transcribes(digest.lines, o.stream.events,
                                        Len(o.stream.events) - 2, r.of)
        BY DigestOfSigned DEF digest
      <3> QED BY <2>2, <3>1
    <2>4. r.flattened
      <3> DEFINE i == Len(o.stream.events) - 1
      <3>1. /\ i \in 1 .. Len(o.stream.events)
            /\ o.stream.events[i].kind = "receipt"
            /\ o.stream.events[i].payload = Expected(r)
        <4>1. Len(o.stream.events) - 2 >= 0 /\ (Len(o.stream.events) - 2) + 1 = i
          BY <2>3 DEF Signed
        <4> QED BY <2>3, <4>1 DEF Signed
      <3> HIDE DEF i
      <3>2. o.stream.events[i] \in Events
        BY <3>1
      <3>3. Expected(r) # Absent
        BY <3>1, <3>2, EventsAssumption DEF EventsAssumption
      <3> QED BY <3>3 DEF Expected
    <2> QED BY <2>1, <2>3, <2>4 DEF Expected
  <1>6. o.require_bindings =>
           o.request # Absent /\ (o.body # Absent \/ o.stream.given)
    BY <1>1 DEF TrafficBound
  <1> QED BY <1>2, <1>4, <1>5, <1>6

-----------------------------------------------------------------------------
(*                              The theorems                               *)

(* However long the stream, stream_digest's single pass with its two flags *)
(* accepts exactly the signed shape and counts its data events.            *)
THEOREM DigestsMatchTheShape ==
    Spec => []DigestMatchesShape
  <1>1. CaptureInv => DigestMatchesShape
    <2> SUFFICES ASSUME CaptureInv, NEW domain \in Domains, NEW id
                 PROVE  LET digest == StreamDigest(Captured, domain, id)
                        IN  /\ digest.ok <=> Signed(Captured, domain, id)
                            /\ digest.ok => digest.events = Len(wire) - 2
      BY DEF DigestMatchesShape
    <2>1. Captured.events = wire
      BY DEF Captured
    <2>2. Captured.events \in Seq(Events)
      BY <2>1 DEF CaptureInv
    <2> HIDE DEF Captured
    <2> QED BY <2>1, <2>2, DigestOfSigned
  <1> QED BY <1>1, InitCaptures, NextCaptures, PTL DEF Spec

(* However the stream is cut into chunks, a capture whose bytes verify     *)
(* against a receipt has discovered that receipt (refresh_receipt).        *)
THEOREM CapturesFindTheReceipt ==
    Spec => []CaptureFindsTheReceipt
  <1>1. CaptureInv => CaptureFindsTheReceipt
    <2> SUFFICES ASSUME CaptureInv, NEW domain \in Domains, NEW id \in Ids,
                        StreamDigest(Captured, domain, id).ok
                 PROVE  receipt = id
      BY DEF CaptureFindsTheReceipt
    <2> DEFINE i == Len(wire) - 1
    <2>1. Captured.events = wire
      BY DEF Captured
    <2>2. Captured.events \in Seq(Events)
      BY <2>1 DEF CaptureInv
    <2>3. Signed(Captured, domain, id)
      BY <2>2, DigestOfSigned
    <2>4. Len(wire) \in Nat
      BY DEF CaptureInv
    <2>5. /\ Len(wire) - 2 >= 0 /\ (Len(wire) - 2) + 1 = i /\ (Len(wire) - 2) + 2 = i + 1
          /\ i \in 1 .. Len(wire) /\ i + 1 = Len(wire)
      BY <2>1, <2>3, <2>4 DEF Signed
    <2> HIDE DEF i
    <2>6. wire[i].kind = "receipt" /\ wire[i].payload = id /\ wire[i + 1].kind = "done"
      BY <2>1, <2>3, <2>5 DEF Signed
    <2>7. \A j \in i + 1 .. Len(wire) : j = i + 1
      BY <2>5
    <2>8. LastReceipt(wire, i)
      BY <2>6, <2>7 DEF LastReceipt
    <2> QED BY <2>5, <2>6, <2>8 DEF CaptureInv
  <1> QED BY <1>1, InitCaptures, NextCaptures, PTL DEF Spec

(* Whatever is captured or supplied, a receipt that verify_receipt_with    *)
(* accepts is about that traffic.                                          *)
THEOREM AcceptedWasSigned ==
    Spec => []AcceptedIsWhatWasSigned
  <1>1. CaptureInv => AcceptedIsWhatWasSigned
    <2> SUFFICES ASSUME CaptureInv, NEW v \in Accepted
                 PROVE  LET r == v.receipt
                            o == v.options
                        IN  /\ o.request # Absent => r.req = o.request
                            /\ o.body # Absent => r.of = "body" /\ r.resp = << o.body >>
                            /\ o.stream.given =>
                                  /\ o.body = Absent /\ r.flattened
                                  /\ Signed(o.stream, r.of, r.id)
                                  /\ Transcribes(r.resp, o.stream.events,
                                                 Len(o.stream.events) - 2, r.of)
                            /\ o.require_bindings =>
                                  o.request # Absent /\ (o.body # Absent \/ o.stream.given)
      BY DEF AcceptedIsWhatWasSigned
    <2>1. v \in verdict /\ v.error = "none" /\ VerdictOK(v)
      BY DEF Accepted, CaptureInv
    <2>2. /\ VerifyReceiptWith(v.receipt, v.options) = "none"
          /\ v.options.stream.events \in Seq(Events)
      BY <2>1 DEF VerdictOK, Answer
    <2> QED BY <2>2, AcceptedHolds
  <1> QED BY <1>1, InitCaptures, NextCaptures, PTL DEF Spec

(* For every receipt and all options, leaving out evidence or expectations *)
(* never turns an acceptance into a refusal.                               *)
THEOREM OptionsRestrict ==
    Spec => []OptionsOnlyRestrict
  <1>1. CaptureInv => OptionsOnlyRestrict
    <2> SUFFICES ASSUME CaptureInv, NEW v \in Accepted, NEW o \in Relaxed(v.options)
                 PROVE  VerifyReceiptWith(v.receipt, o) = "none"
      BY DEF OptionsOnlyRestrict
    <2>1. v \in verdict /\ v.error = "none" /\ VerdictOK(v)
      BY DEF Accepted, CaptureInv
    <2>2. VerifyReceiptWith(v.receipt, v.options) = "none" /\ OptionsOK(v.options)
      BY <2>1 DEF VerdictOK, Answer
    <2> QED BY <2>2, RelaxedAccepted
  <1> QED BY <1>1, InitCaptures, NextCaptures, PTL DEF Spec

(* For every receipt and all options, the two opt-outs forgive the absence *)
(* of evidence and nothing else.                                           *)
THEOREM OptOutsForgive ==
    Spec => []OptOutsForgiveAbsence
  <1>1. CaptureInv => OptOutsForgiveAbsence
    <2> SUFFICES ASSUME CaptureInv, NEW v \in verdict
                 PROVE  LET optedOut == [v.options EXCEPT !.require_bindings = FALSE,
                                                          !.require_attestation = FALSE]
                            compactAlone == /\ ~ v.receipt.flattened
                                            /\ v.options.attestation = NoDocument
                        IN  /\ (/\ v.error # "none"
                                /\ VerifyReceiptWith(v.receipt, optedOut) = "none") =>
                                 \/ v.error = "missing_binding"
                                 \/ v.error = "missing_attestation" /\ compactAlone
                            /\ v.error = "none" /\ v.status # "verified" =>
                                 compactAlone /\ ~ v.options.require_attestation
      BY DEF OptOutsForgiveAbsence
    <2>1. v = Answer(v.receipt, v.options) /\ OptionsOK(v.options)
      BY DEF CaptureInv, VerdictOK
    <2>2. /\ v.error = VerifyReceiptWith(v.receipt, v.options)
          /\ v.status = AttestationStatus(v.receipt, v.options)
      BY <2>1 DEF Answer
    <2> DEFINE q == [v.options EXCEPT !.require_bindings = FALSE,
                                      !.require_attestation = FALSE]
    <2>3. q = [v.options EXCEPT !.require_bindings = FALSE,
                                !.require_attestation = FALSE]
      OBVIOUS
    <2> HIDE DEF q
    <2>4. ASSUME v.error # "none", VerifyReceiptWith(v.receipt, q) = "none"
          PROVE  \/ v.error = "missing_binding"
                 \/ /\ v.error = "missing_attestation"
                    /\ ~ v.receipt.flattened /\ v.options.attestation = NoDocument
      BY <2>1, <2>2, <2>3, <2>4, OptingOut, ZenonT(30)
    <2>5. ASSUME v.error = "none", v.status # "verified"
          PROVE  /\ ~ v.receipt.flattened /\ v.options.attestation = NoDocument
                 /\ ~ v.options.require_attestation
      BY <2>2, <2>5, UnverifiedOnlyOnRequest, ZenonT(30)
    <2> QED BY <2>3, <2>4, <2>5, ZenonT(30)
  <1> QED BY <1>1, InitCaptures, NextCaptures, PTL DEF Spec
=============================================================================
