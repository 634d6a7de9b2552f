----------------------- MODULE TransportWebsocketUrl -----------------------
(***************************************************************************)
(* transport_websocket_configure_url of lib/universal_transport_websocket.c*)
(* which turns the URL of the service into host, port and ssl, by up to    *)
(* four attempts of sscanf with different formats.  TransportWebsocket     *)
(* keeps of it whether there is a host.                                    *)
(*                                                                         *)
(* A URL is a scheme and the characters after it.  The alphabet has no     *)
(* signs and no blanks, which %d would take as part of a number.           *)
(***************************************************************************)
EXTENDS Integers, Sequences

CONSTANTS
    Letters,     \* the characters of a host
    Rests,       \* what may follow the scheme
    Width,       \* 99 in the code: the width of %99[^:] and of %99d
    UrlSize,     \* 256 in the code: a URL has fewer characters
    MaxInt,      \* INT_MAX
    NULL

ASSUME WidthAssumption == Width \in Nat \ {0}

ASSUME SizesAssumption == UrlSize \in Nat /\ MaxInt \in Nat

ASSUME LettersAssumption == ":" \notin Letters

SchemeLength == [s \in {"wss://", "ws://", "other"} |->
                    CASE s = "wss://" -> 6 [] s = "ws://" -> 5 [] s = "other" -> 0]
Schemes == DOMAIN SchemeLength

DigitValue == [d \in {"0", "1", "8"} |-> CASE d = "0" -> 0 [] d = "1" -> 1 [] d = "8" -> 8]
Digits == DOMAIN DigitValue
Characters == Letters \cup Digits \cup {":"}

ASSUME RestsAssumption == Rests \subseteq Seq(Characters)

VARIABLES
    scheme, rest,       \* the URL
    attempt,            \* the sscanf to come, or 0 when all is done
    host, port, ssl     \* the fields of the websocket

vars == <<scheme, rest, attempt, host, port, ssl>>

SslMode == 2
SslPort == 443
NonSslPort == 80

ShortEnough == SchemeLength[scheme] + Len(rest) < UrlSize

Init ==
    /\ scheme \in Schemes
    /\ rest \in Rests
    /\ attempt = IF ShortEnough THEN 1 ELSE 0
    /\ host = NULL
    /\ port = 0
    /\ ssl = 0

-----------------------------------------------------------------------------
(* How many characters %99[^:] takes                                       *)
HostEnds(n) ==
    /\ n <= Width
    /\ \A i \in 1 .. n : rest[i] # ":"
    /\ n = Width \/ n = Len(rest) \/ rest[n + 1] = ":"

HostLength == CHOOSE n \in 0 .. Len(rest) : HostEnds(n)

ScannedHost == SubSeq(rest, 1, HostLength)

(* how many digits %99d takes from the character i on *)
NumberEnds(i, n) ==
    /\ n <= Width
    /\ \A k \in i .. i + n - 1 : rest[k] \in Digits
    /\ n = Width \/ i + n > Len(rest) \/ rest[i + n] \notin Digits

NumberLength(i) == CHOOSE n \in 0 .. Len(rest) - i + 1 : NumberEnds(i, n)

Decimal(digits) ==
    LET value[n \in 0 .. Len(digits)] ==
            IF n = 0 THEN 0 ELSE 10 * value[n - 1] + DigitValue[digits[n]]
    IN  value[Len(digits)]

(* and what is stored.  A number beyond int is undefined: a build stores   *)
(* its low bits, or those of the largest long.                             *)
Stored(n) ==
    IF n <= MaxInt THEN {n} ELSE {n % (2 * (MaxInt + 1)), MaxInt, 2 * MaxInt + 1}

ScannedPorts(i) == Stored(Decimal(SubSeq(rest, i, i + NumberLength(i) - 1)))

(* The format gives a host, and a port after it.  An operator <A>_<Fault>  *)
(* is <A> with a fault in it, and serves only to show that a property      *)
(* notices.                                                                *)
MatchesHost_AnyScheme(format) == HostLength > 0

MatchesHost(format) == scheme = format /\ HostLength > 0

MatchesPort ==
    /\ HostLength < Len(rest)
    /\ rest[HostLength + 1] = ":"
    /\ NumberLength(HostLength + 2) > 0

-----------------------------------------------------------------------------
Configure(ports, s) ==
    /\ host' = ScannedHost
    /\ port' \in ports
    /\ ssl' = s
    /\ attempt' = 0

Fails_Forever(n) ==
    /\ attempt' = n + 1
    /\ UNCHANGED <<host, port, ssl>>

Fails(n) ==
    /\ attempt' = IF n = 4 THEN 0 ELSE n + 1
    /\ UNCHANGED <<host, port, ssl>>

(* wss://host:port, ws://host:port *)
WithPort(n, format, s) ==
    /\ attempt = n
    /\ IF MatchesHost(format) /\ MatchesPort
       THEN Configure(ScannedPorts(HostLength + 2), s)
       ELSE Fails(n)
    /\ UNCHANGED <<scheme, rest>>

(* wss://host, ws://host *)
WithoutPort(n, format, p, s) ==
    /\ attempt = n
    /\ IF MatchesHost(format) THEN Configure({p}, s) ELSE Fails(n)
    /\ UNCHANGED <<scheme, rest>>

Next_NoPortFirst ==
    \/ WithoutPort(1, "wss://", SslPort, SslMode)
    \/ WithPort(2, "wss://", SslMode)
    \/ WithoutPort(3, "ws://", NonSslPort, 0)
    \/ WithPort(4, "ws://", 0)

Next ==
    \/ WithPort(1, "wss://", SslMode)
    \/ WithoutPort(2, "wss://", SslPort, SslMode)
    \/ WithPort(3, "ws://", 0)
    \/ WithoutPort(4, "ws://", NonSslPort, 0)

Spec == Init /\ [][Next]_vars
-----------------------------------------------------------------------------
TypeOK ==
    /\ scheme \in Schemes
    /\ rest \in Seq(Characters)
    /\ attempt \in 0 .. 4
    /\ host = NULL \/ host \in Seq(Characters)
    /\ port \in Nat
    /\ ssl \in {0, SslMode}

(* The URL is written as one of the four comments of the code has it: a    *)
(* host, and maybe a colon and a port; and within the sizes of the code.   *)
IsHost(n) == n > 0 /\ \A i \in 1 .. n : rest[i] \in Letters \cup Digits

HasPort(n) ==
    /\ n + 1 < Len(rest) /\ rest[n + 1] = ":"
    /\ \A i \in n + 2 .. Len(rest) : rest[i] \in Digits

WrittenPort(n) == Decimal(SubSeq(rest, n + 2, Len(rest)))

Documented(n) ==
    scheme # "other" /\ IsHost(n) /\ (n = Len(rest) \/ HasPort(n))

Fits(n) ==
    /\ ShortEnough
    /\ n <= Width
    /\ HasPort(n) => Len(rest) - (n + 1) <= Width /\ WrittenPort(n) <= MaxInt

AsWritten(n) ==
    /\ host = SubSeq(rest, 1, n)
    /\ ssl = IF scheme = "wss://" THEN SslMode ELSE 0
    /\ port = IF HasPort(n) THEN WrittenPort(n)
              ELSE IF scheme = "wss://" THEN SslPort ELSE NonSslPort

(* The order of the four attempts, each of which takes what it can of the  *)
(* URL, gives what is written, in every documented form: a port given is   *)
(* not taken for a missing one.                                            *)
ConfiguredAsWritten ==
    attempt = 0 => \A n \in 1 .. Len(rest) : Documented(n) /\ Fits(n) => AsWritten(n)

(* However a URL is malformed: one that asks for encryption is never       *)
(* configured without, and the other way round.                            *)
SslIffAsked == host # NULL => (ssl = SslMode <=> scheme = "wss://")

(* What the proofs rest on: which attempts have failed so far, and what    *)
(* the last one that did not has made of the URL.                          *)
Unconfigured == host = NULL /\ port = 0 /\ ssl = 0

Configured ==
    /\ scheme # "other" /\ HostLength > 0
    /\ host = ScannedHost
    /\ ssl = IF scheme = "wss://" THEN SslMode ELSE 0
    /\ port \in IF MatchesPort THEN ScannedPorts(HostLength + 2)
                ELSE IF scheme = "wss://" THEN {SslPort} ELSE {NonSslPort}

UrlInv ==
    /\ TypeOK
    /\ attempt # 0 => Unconfigured /\ ShortEnough
    /\ attempt = 2 => ~(MatchesHost("wss://") /\ MatchesPort)
    /\ attempt \in {3, 4} => ~MatchesHost("wss://")
    /\ attempt = 4 => ~(MatchesHost("ws://") /\ MatchesPort)
    /\ attempt = 0 =>
          \/ Configured
          \/ Unconfigured /\ (ShortEnough => scheme = "other" \/ HostLength = 0)
=============================================================================
