-------------------- MODULE TransportWebsocketUrlProofs --------------------
(***************************************************************************)
(* The attempts of transport_websocket_configure_url, for every URL and    *)
(* every width, size and range of int.                                     *)
(***************************************************************************)
EXTENDS TransportWebsocketUrl, SequenceTheorems, NaturalLemmas, TLAPS

LEMMA DigitsAre == Digits = {"0", "1", "8"} /\ ":" \notin Digits /\ DigitValue \in [Digits -> Nat]
  BY DEF Digits, DigitValue

LEMMA SchemesAre == Schemes = {"wss://", "ws://", "other"}
  BY DEF Schemes, SchemeLength

(* %99[^:] stops somewhere, *)
LEMMA HostEndsSomewhere ==
    ASSUME TypeOK
    PROVE  /\ HostLength \in 0 .. Len(rest)
           /\ HostEnds(HostLength)
<1> DEFINE len == Len(rest)
           T == {n \in 0 .. len : n = Width \/ n = len \/ rest[n + 1] = ":"}
<1>1. len \in Nat /\ Width \in Nat
  BY WidthAssumption DEF TypeOK
<1> HIDE DEF len
<1>2. PICK n \in T : \A k \in T : n <= k
  <2>1. T \subseteq Nat /\ len \in T
    BY <1>1
  <2> HIDE DEF T
  <2> QED  BY <2>1, LeastNatural
<1>3. n \in 0 .. len /\ (n = Width \/ n = len \/ rest[n + 1] = ":")
  OBVIOUS
<1>4. n <= Width
  <2>1. CASE Width \in 0 .. len
    <3>1. Width \in T
      BY <2>1
    <3> HIDE DEF T
    <3> QED  BY <3>1, <1>2
  <2>2. CASE Width \notin 0 .. len
    BY <2>2, <1>1, <1>3
  <2> QED  BY <2>1, <2>2
<1>5. ASSUME NEW i \in 1 .. n PROVE rest[i] # ":"
  <2>1. i - 1 \in 0 .. len /\ ~(n <= i - 1) /\ (i - 1) + 1 = i
    BY <1>1, <1>3
  <2>2. i - 1 \notin T
    <3> HIDE DEF T
    <3> QED  BY <2>1, <1>2
  <2> QED  BY <2>1, <2>2
<1>6. n \in 0 .. len /\ HostEnds(n)
  <2> HIDE DEF T
  <2> QED  BY <1>3, <1>4, <1>5 DEF HostEnds, len
<1>7. \E m \in 0 .. len : HostEnds(m)
  <2> HIDE DEF T
  <2> QED  BY <1>6
<1>8. HostLength = CHOOSE m \in 0 .. len : HostEnds(m)
  BY DEF HostLength, len
<1> HIDE DEF T
<1>9. HostLength \in 0 .. len /\ HostEnds(HostLength)
  BY ONLY <1>7, <1>8, Zenon
<1> QED  BY <1>9 DEF len

(* and there alone. *)
LEMMA HostEndsThere ==
    ASSUME TypeOK, NEW n \in 0 .. Len(rest), HostEnds(n)
    PROVE  HostLength = n
<1>1. HostLength \in 0 .. Len(rest) /\ HostEnds(HostLength) /\ Len(rest) \in Nat
  BY HostEndsSomewhere DEF TypeOK
<1> DEFINE h == HostLength
<1> HIDE DEF h
<1>2. ASSUME NEW a \in 0 .. Len(rest), NEW b \in 0 .. Len(rest),
             HostEnds(a), HostEnds(b), a < b
      PROVE  FALSE
  <2>1. a + 1 \in 1 .. b
    BY <1>1, <1>2
  <2> QED  BY <2>1, <1>1, <1>2, WidthAssumption DEF HostEnds
<1>3. h = n
  <2>1. h \in 0 .. Len(rest) /\ HostEnds(h)
    BY <1>1 DEF h
  <2> QED  BY <2>1, <1>2, <1>1
<1> QED  BY <1>3 DEF h

(* %99d stops somewhere, *)
LEMMA NumberEndsSomewhere ==
    ASSUME TypeOK, NEW i \in 1 .. Len(rest) + 1
    PROVE  /\ NumberLength(i) \in 0 .. Len(rest) - i + 1
           /\ NumberEnds(i, NumberLength(i))
<1> DEFINE len == Len(rest)
           most == len - i + 1
           T == {n \in 0 .. most : n = Width \/ i + n > len \/ rest[i + n] \notin Digits}
<1>1. len \in Nat /\ Width \in Nat /\ i \in Nat
  BY WidthAssumption DEF TypeOK
<1>2. most \in Nat /\ i + most > len
  BY <1>1
<1> HIDE DEF len
<1>3. PICK n \in T : \A k \in T : n <= k
  <2>1. T \subseteq Nat /\ most \in T
    BY <1>1, <1>2
  <2> HIDE DEF T
  <2> QED  BY <2>1, LeastNatural
<1> HIDE DEF most
<1>4. n \in 0 .. most /\ (n = Width \/ i + n > len \/ rest[i + n] \notin Digits)
  OBVIOUS
<1>5. n <= Width
  <2>1. CASE Width \in 0 .. most
    <3>1. Width \in T
      BY <2>1
    <3> HIDE DEF T
    <3> QED  BY <3>1, <1>3
  <2>2. CASE Width \notin 0 .. most
    BY <2>2, <1>1, <1>2, <1>4
  <2> QED  BY <2>1, <2>2
<1>6. ASSUME NEW k \in i .. i + n - 1 PROVE rest[k] \in Digits
  <2>1. k - i \in 0 .. most /\ ~(n <= k - i) /\ i + (k - i) = k
    BY <1>1, <1>2, <1>4
  <2>2. k - i \notin T
    <3> HIDE DEF T
    <3> QED  BY <2>1, <1>3
  <2> QED  BY <2>1, <2>2
<1>7. n \in 0 .. most /\ NumberEnds(i, n)
  <2> HIDE DEF T
  <2> QED  BY <1>4, <1>5, <1>6 DEF NumberEnds, len
<1>8. \E m \in 0 .. most : NumberEnds(i, m)
  <2> HIDE DEF T
  <2> QED  BY <1>7
<1>9. NumberLength(i) = CHOOSE m \in 0 .. most : NumberEnds(i, m)
  BY DEF NumberLength, most, len
<1> HIDE DEF T
<1>10. NumberLength(i) \in 0 .. most /\ NumberEnds(i, NumberLength(i))
  BY ONLY <1>8, <1>9, Zenon
<1> QED  BY <1>10 DEF most, len

(* and there alone. *)
LEMMA NumberEndsThere ==
    ASSUME TypeOK, NEW i \in 1 .. Len(rest) + 1, NEW n \in 0 .. Len(rest) - i + 1, NumberEnds(i, n)
    PROVE  NumberLength(i) = n
<1> DEFINE d == NumberLength(i)
<1>1. d \in 0 .. Len(rest) - i + 1 /\ NumberEnds(i, d) /\ Len(rest) \in Nat
  BY NumberEndsSomewhere DEF TypeOK
<1> HIDE DEF d
<1>2. ASSUME NEW a \in 0 .. Len(rest) - i + 1, NEW b \in 0 .. Len(rest) - i + 1,
             NumberEnds(i, a), NumberEnds(i, b), a < b
      PROVE  FALSE
  <2>1. i + a \in i .. i + b - 1 /\ ~(i + a > Len(rest))
    BY <1>1, <1>2
  <2> QED  BY <2>1, <1>1, <1>2, WidthAssumption DEF NumberEnds
<1>3. d = n
  BY <1>1, <1>2
<1> QED  BY <1>3 DEF d

(* The value of digits is a number. *)
LEMMA DecimalIsNatural == ASSUME NEW digits \in Seq(Digits) PROVE Decimal(digits) \in Nat
<1> DEFINE n == Len(digits)
           step == [p \in (1 .. n) \X Nat |-> 10 * p[2] + DigitValue[digits[p[1]]]]
           Value(f) == [k \in 0 .. n |->
                           IF k = 0 THEN 0 ELSE 10 * f[k - 1] + DigitValue[digits[k]]]
           value == CHOOSE f : f = Value(f)
<1>1. n \in Nat /\ \A k \in 1 .. n : DigitValue[digits[k]] \in Nat
  BY DigitsAre
<1>2. Decimal(digits) = value[n]
  BY DEF Decimal
<1> HIDE DEF n
<1>3. step \in [(1 .. n) \X Nat -> Nat]
  BY <1>1
<1>4. PICK f \in [0 .. n -> Nat] : f[0] = 0 /\ \A k \in 1 .. n : f[k] = step[<<k, f[k - 1]>>]
  <2> HIDE DEF step
  <2>1. n \in Nat
    BY <1>1
  <2>2. 0 \in Nat
    OBVIOUS
  <2> QED  BY ONLY <2>1, <2>2, <1>3, RecursionExists, Zenon
<1>5. f = Value(f)
  <2>1. ASSUME NEW k \in 0 .. n
        PROVE  f[k] = IF k = 0 THEN 0 ELSE 10 * f[k - 1] + DigitValue[digits[k]]
    <3>1. CASE k = 0
      BY <3>1, <1>4
    <3>2. CASE k # 0
      <4>1. k \in 1 .. n /\ k - 1 \in 0 .. n
        BY <3>2, <1>1
      <4>2. <<k, f[k - 1]>> \in (1 .. n) \X Nat
        BY <4>1
      <4> QED  BY <3>2, <4>1, <4>2, <1>4
    <3> QED  BY <3>1, <3>2
  <2> HIDE DEF step
  <2> QED  BY <2>1
<1>6. value = Value(value)
  <2> HIDE DEF Value, step
  <2>1. \E g : g = Value(g)
    BY <1>5
  <2> QED  BY <2>1, Zenon
<1> HIDE DEF value, step
<1>7. \A k \in 0 .. n : value[k] \in Nat
  <2> DEFINE T == {k \in 0 .. n : value[k] \notin Nat}
  <2>1. SUFFICES ASSUME T # {} PROVE FALSE
    OBVIOUS
  <2>2. PICK m \in T : \A k \in T : m <= k
    <3>1. T \subseteq Nat
      OBVIOUS
    <3> HIDE DEF T
    <3> QED  BY <2>1, <3>1, LeastNatural
  <2>3. m \in 0 .. n /\ value[m] \notin Nat
    OBVIOUS
  <2>4. value[m] = IF m = 0 THEN 0 ELSE 10 * value[m - 1] + DigitValue[digits[m]]
    BY <1>6, <2>3
  <2>5. m # 0
    BY <2>3, <2>4
  <2>6. m - 1 \in 0 .. n /\ m \in 1 .. n /\ ~(m <= m - 1)
    BY <2>3, <2>5, <1>1
  <2>7. value[m - 1] \in Nat
    BY <2>2, <2>6
  <2> QED  BY <1>1, <2>3, <2>4, <2>5, <2>6, <2>7
<1>8. n \in 0 .. n
  BY <1>1
<1> QED  BY <1>2, <1>7, <1>8

(* What %99d reads of a URL is digits, and what it stores a number. *)
LEMMA StoredIsNatural ==
    ASSUME NEW v \in Nat
    PROVE  Stored(v) \subseteq Nat /\ (v <= MaxInt => Stored(v) = {v})
<1> DEFINE m == 2 * (MaxInt + 1)
<1>1. m \in Nat \ {0} /\ MaxInt \in Nat /\ 2 * MaxInt + 1 \in Nat
  BY SizesAssumption
<1>2. v % m \in Nat
  <2> HIDE DEF m
  <2> QED  BY <1>1
<1> QED  BY <1>1, <1>2 DEF Stored

LEMMA ScannedPortsAreNatural ==
    ASSUME TypeOK, NEW i \in 1 .. Len(rest) + 1
    PROVE  ScannedPorts(i) \subseteq Nat
<1> DEFINE d == NumberLength(i)
           digits == SubSeq(rest, i, i + d - 1)
<1>1. /\ d \in 0 .. Len(rest) - i + 1 /\ Len(rest) \in Nat
      /\ \A k \in i .. i + d - 1 : rest[k] \in Digits
  BY NumberEndsSomewhere DEF TypeOK, NumberEnds
<1>2. ScannedPorts(i) = Stored(Decimal(digits))
  BY DEF ScannedPorts
<1> HIDE DEF d
<1>3. digits \in Seq(Digits)
  <2>1. i \in Int /\ i + d - 1 \in Int
    BY <1>1
  <2> QED  BY <1>1, <2>1, SubSeqProperties
<1> HIDE DEF digits
<1> QED  BY <1>2, <1>3, DecimalIsNatural, StoredIsNatural

-----------------------------------------------------------------------------
(* What the attempts make of a URL has the types it should. *)
LEMMA ConfiguredTypes ==
    ASSUME TypeOK
    PROVE  /\ HostLength \in Nat
           /\ ScannedHost \in Seq(Characters)
           /\ MatchesPort => ScannedPorts(HostLength + 2) \subseteq Nat
<1>1. HostLength \in 0 .. Len(rest) /\ rest \in Seq(Characters)
  BY HostEndsSomewhere DEF TypeOK
<1>2. ScannedHost \in Seq(Characters)
  BY <1>1 DEF ScannedHost
<1>3. ASSUME MatchesPort PROVE ScannedPorts(HostLength + 2) \subseteq Nat
  <2>1. HostLength + 2 \in 1 .. Len(rest) + 1
    BY <1>1, <1>3 DEF MatchesPort
  <2> QED  BY <2>1, ScannedPortsAreNatural
<1> QED  BY <1>1, <1>2, <1>3

(* An attempt leaves the URL alone, and so all that is scanned of it. *)
LEMMA SameUrl ==
    ASSUME UNCHANGED <<scheme, rest>>
    PROVE  /\ HostLength' = HostLength /\ ScannedHost' = ScannedHost
           /\ MatchesPort' = MatchesPort
           /\ \A i : ScannedPorts(i)' = ScannedPorts(i)
           /\ ShortEnough' = ShortEnough
<1>1. HostLength' = HostLength
  BY DEF HostLength, HostEnds
<1>2. \A i : NumberLength(i)' = NumberLength(i)
  BY DEF NumberLength, NumberEnds
<1> QED
  BY <1>1, <1>2 DEF ScannedHost, MatchesPort, ScannedPorts, ShortEnough

(* wss://host:port and ws://host:port *)
LEMMA WithPortStep ==
    ASSUME UrlInv, NEW n \in {1, 3}, NEW format \in {"wss://", "ws://"},
           format = IF n = 1 THEN "wss://" ELSE "ws://",
           WithPort(n, format, IF format = "wss://" THEN SslMode ELSE 0)
    PROVE  UrlInv'
<1>1. TypeOK /\ Unconfigured /\ ShortEnough /\ attempt = n /\ UNCHANGED <<scheme, rest>>
  BY DEF UrlInv, WithPort
<1>2. CASE MatchesHost(format) /\ MatchesPort
  <2>1. /\ host' = ScannedHost /\ port' \in ScannedPorts(HostLength + 2)
        /\ ssl' = IF format = "wss://" THEN SslMode ELSE 0
        /\ attempt' = 0 /\ scheme = format /\ HostLength > 0
    BY <1>2 DEF WithPort, Configure, MatchesHost
  <2>2. TypeOK'
    BY <1>1, <1>2, <2>1, ConfiguredTypes DEF TypeOK, SslMode
  <2>3. Configured'
    BY <1>1, <1>2, <2>1, SameUrl DEF Configured
  <2> QED  BY <2>1, <2>2, <2>3 DEF UrlInv
<1>3. CASE ~(MatchesHost(format) /\ MatchesPort)
  <2>1. attempt' = n + 1 /\ UNCHANGED <<host, port, ssl>>
    BY <1>3 DEF WithPort, Fails
  <2>2. TypeOK' /\ Unconfigured' /\ ShortEnough'
    BY <1>1, <2>1, SameUrl DEF TypeOK, Unconfigured
  <2>3. n = 1 => ~(MatchesHost("wss://")' /\ MatchesPort')
    BY <1>1, <1>3, SameUrl DEF MatchesHost
  <2>4. n = 3 => ~(MatchesHost("ws://")' /\ MatchesPort') /\ ~MatchesHost("wss://")'
    BY <1>1, <1>3, SameUrl DEF MatchesHost, UrlInv
  <2> QED  BY <2>1, <2>2, <2>3, <2>4 DEF UrlInv
<1> QED  BY <1>2, <1>3

(* wss://host and ws://host *)
LEMMA WithoutPortStep ==
    ASSUME UrlInv, NEW n \in {2, 4}, NEW format \in {"wss://", "ws://"},
           format = IF n = 2 THEN "wss://" ELSE "ws://",
           WithoutPort(n, format, IF format = "wss://" THEN SslPort ELSE NonSslPort,
                                  IF format = "wss://" THEN SslMode ELSE 0)
    PROVE  UrlInv'
<1>1. TypeOK /\ Unconfigured /\ ShortEnough /\ attempt = n /\ UNCHANGED <<scheme, rest>>
  BY DEF UrlInv, WithoutPort
<1>2. CASE MatchesHost(format)
  <2>1. /\ host' = ScannedHost /\ port' = IF format = "wss://" THEN SslPort ELSE NonSslPort
        /\ ssl' = IF format = "wss://" THEN SslMode ELSE 0
        /\ attempt' = 0 /\ scheme = format /\ HostLength > 0
    BY <1>2 DEF WithoutPort, Configure, MatchesHost
  <2>2. TypeOK'
    BY <1>1, <1>2, <2>1, ConfiguredTypes DEF TypeOK, SslMode, SslPort, NonSslPort
  <2>3. ~MatchesPort
    BY <1>1, <1>2, <2>1 DEF UrlInv, MatchesHost
  <2>4. Configured'
    BY <1>1, <1>2, <2>1, <2>3, SameUrl DEF Configured
  <2> QED  BY <2>1, <2>2, <2>4 DEF UrlInv
<1>3. CASE ~MatchesHost(format)
  <2>1. attempt' = (IF n = 4 THEN 0 ELSE n + 1) /\ UNCHANGED <<host, port, ssl>>
    BY <1>3 DEF WithoutPort, Fails
  <2>2. TypeOK' /\ Unconfigured' /\ ShortEnough'
    BY <1>1, <2>1, SameUrl DEF TypeOK, Unconfigured
  <2>3. n = 2 => ~MatchesHost("wss://")'
    BY <1>1, <1>3, SameUrl DEF MatchesHost
  <2>4. n = 4 => scheme' = "other" \/ HostLength' = 0
    <3>1. n = 4 => ~MatchesHost("ws://") /\ ~MatchesHost("wss://")
      BY <1>1, <1>3 DEF UrlInv
    <3>2. scheme \in {"wss://", "ws://", "other"} /\ HostLength \in Nat
      BY <1>1, SchemesAre, ConfiguredTypes DEF TypeOK
    <3> QED  BY <1>1, <3>1, <3>2, SameUrl DEF MatchesHost
  <2> QED  BY <2>1, <2>2, <2>3, <2>4 DEF UrlInv
<1> QED  BY <1>2, <1>3

(* A documented URL is scanned as it is written: the host ends at the      *)
(* colon, the port at the end.                                             *)
LEMMA ScannedAsWritten ==
    ASSUME TypeOK, NEW n \in 1 .. Len(rest), Documented(n), Fits(n)
    PROVE  /\ HostLength = n
           /\ MatchesPort <=> HasPort(n)
           /\ HasPort(n) => ScannedPorts(n + 2) = {WrittenPort(n)}
<1>1. /\ rest \in Seq(Characters) /\ Len(rest) \in Nat /\ n \in Nat \ {0}
      /\ n \in 0 .. Len(rest)
  BY DEF TypeOK
<1>2. HostEnds(n)
  <2>1. n <= Width
    BY DEF Fits
  <2>2. \A i \in 1 .. n : rest[i] # ":"
    BY DigitsAre, LettersAssumption DEF Documented, IsHost
  <2>3. n = Len(rest) \/ rest[n + 1] = ":"
    BY DEF Documented, HasPort
  <2> QED  BY <2>1, <2>2, <2>3 DEF HostEnds
<1>3. HostLength = n
  BY <1>1, <1>2, HostEndsThere
<1>4. ASSUME HasPort(n)
      PROVE  NumberLength(n + 2) = Len(rest) - (n + 1)
  <2> DEFINE d == Len(rest) - (n + 1)
  <2>1. n + 2 \in 1 .. Len(rest) + 1 /\ d \in 0 .. Len(rest) - (n + 2) + 1
    BY <1>1, <1>4 DEF HasPort
  <2>2. NumberEnds(n + 2, d)
    <3>1. d <= Width
      BY <1>4 DEF Fits
    <3>2. n + 2 + d - 1 = Len(rest) /\ n + 2 + d > Len(rest)
      BY <1>1
    <3>3. \A k \in n + 2 .. n + 2 + d - 1 : rest[k] \in Digits
      BY <1>4, <3>2 DEF HasPort
    <3> QED  BY <3>1, <3>2, <3>3 DEF NumberEnds
  <2> HIDE DEF d
  <2>3. NumberLength(n + 2) = d
    BY <2>1, <2>2, NumberEndsThere
  <2> QED  BY <2>3 DEF d
<1>5. MatchesPort <=> HasPort(n)
  <2>1. ASSUME HasPort(n) PROVE MatchesPort
    BY <1>1, <1>3, <1>4, <2>1 DEF HasPort, MatchesPort
  <2>2. ASSUME MatchesPort PROVE HasPort(n)
    BY <1>1, <1>3, <2>2 DEF MatchesPort, Documented
  <2> QED  BY <2>1, <2>2
<1>6. ASSUME HasPort(n) PROVE ScannedPorts(n + 2) = {WrittenPort(n)}
  <2>1. n + 2 + (Len(rest) - (n + 1)) - 1 = Len(rest)
    BY <1>1
  <2>2. ScannedPorts(n + 2) = Stored(WrittenPort(n))
    BY <1>4, <1>6, <2>1 DEF ScannedPorts, WrittenPort
  <2>3. WrittenPort(n) \in Nat
    <3>1. /\ n + 2 \in Int /\ Len(rest) \in Int
          /\ \A k \in n + 2 .. Len(rest) : rest[k] \in Digits
      BY <1>1, <1>6 DEF HasPort
    <3>2. SubSeq(rest, n + 2, Len(rest)) \in Seq(Digits)
      BY <3>1, SubSeqProperties
    <3> QED  BY <3>2, DecimalIsNatural DEF WrittenPort
  <2>4. WrittenPort(n) <= MaxInt
    BY <1>6 DEF Fits
  <2> QED  BY <2>2, <2>3, <2>4, StoredIsNatural
<1> QED  BY <1>3, <1>5, <1>6

-----------------------------------------------------------------------------
(* What each attempt relies on: those before it have failed. *)
THEOREM AttemptsInOrder == Spec => []UrlInv
<1>1. Init => UrlInv
  <2> SUFFICES ASSUME Init PROVE UrlInv
    OBVIOUS
  <2>1. TypeOK /\ Unconfigured
    BY RestsAssumption DEF Init, TypeOK, Unconfigured
  <2> QED  BY <2>1 DEF Init, UrlInv
<1>2. UrlInv /\ [Next]_vars => UrlInv'
  <2> SUFFICES ASSUME UrlInv, [Next]_vars PROVE UrlInv'
    OBVIOUS
  <2>1. CASE WithPort(1, "wss://", SslMode)
    BY <2>1, WithPortStep
  <2>2. CASE WithoutPort(2, "wss://", SslPort, SslMode)
    BY <2>2, WithoutPortStep
  <2>3. CASE WithPort(3, "ws://", 0)
    BY <2>3, WithPortStep
  <2>4. CASE WithoutPort(4, "ws://", NonSslPort, 0)
    BY <2>4, WithoutPortStep
  <2>5. CASE UNCHANGED vars
    BY <2>5, SameUrl DEF vars, UrlInv, TypeOK, Unconfigured, Configured, MatchesHost
  <2> QED  BY <2>1, <2>2, <2>3, <2>4, <2>5 DEF Next
<1> QED  BY <1>1, <1>2, PTL DEF Spec

(* host, port and ssl keep their types. *)
THEOREM UrlTypeCorrect == Spec => []TypeOK
<1>1. UrlInv => TypeOK
  BY DEF UrlInv
<1> QED  BY <1>1, AttemptsInOrder, PTL

(* Whatever follows the scheme, a URL that asks for encryption is          *)
(* configured with it or not at all, and one that does not, without.       *)
THEOREM UrlSslIffAsked == Spec => []SslIffAsked
<1>1. UrlInv => SslIffAsked
  BY DEF UrlInv, Unconfigured, Configured, SslIffAsked, SslMode
<1> QED  BY <1>1, AttemptsInOrder, PTL

(* Every URL of a documented form, whatever its host and its port, gives   *)
(* the host and the port that are written, or the port of its scheme, and  *)
(* encryption exactly if it is wss.                                        *)
THEOREM UrlAsWritten == Spec => []ConfiguredAsWritten
<1>1. UrlInv => ConfiguredAsWritten
  <2> SUFFICES ASSUME UrlInv, attempt = 0,
                      NEW n \in 1 .. Len(rest), Documented(n), Fits(n)
               PROVE  AsWritten(n)
    BY DEF ConfiguredAsWritten
  <2>1. /\ HostLength = n
        /\ MatchesPort <=> HasPort(n)
        /\ HasPort(n) => ScannedPorts(n + 2) = {WrittenPort(n)}
    BY ScannedAsWritten DEF UrlInv
  <2>2. scheme # "other" /\ HostLength # 0 /\ ShortEnough
    BY <2>1 DEF Documented, Fits
  <2>3. Configured
    BY <2>2 DEF UrlInv
  <2>4. host = SubSeq(rest, 1, n) /\ ssl = IF scheme = "wss://" THEN SslMode ELSE 0
    BY <2>1, <2>3 DEF Configured, ScannedHost
  <2> QED  BY <2>1, <2>3, <2>4 DEF Configured, AsWritten
<1> QED  BY <1>1, AttemptsInOrder, PTL
=============================================================================
