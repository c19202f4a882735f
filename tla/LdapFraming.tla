------------------------------ MODULE LdapFraming ------------------------------
(***************************************************************************)
(* From bytes to handlers: ldap/packet.go takes messages from a            *)
(* connection through a bufio.Reader, and ldap/route.go chooses the        *)
(* handler of each.  LdapSession is about the goroutines that do it.       *)
(*                                                                         *)
(* The connection is a sequence of bytes and four positions in it:         *)
(* start <= pos <= filled <= arrived, where the message in hand starts,    *)
(* how far it was read, how far the buffer goes, and how far the network   *)
(* has come.                                                               *)
(***************************************************************************)
EXTENDS LdapRoutes

CONSTANTS
  Sessions,  \* how routes are registered, and what a peer may send, a sequence of bytes
  Requests,  \* what a message may decode to
  BufSize,   \* the size of the buffer, 4096
  None

ASSUME FramingAssumption ==
  /\ Sessions \subseteq [chains : Seq(Chain), stream : Seq(0 .. 255)]
  /\ Requests \subseteq Request /\ BufSize \in Nat \ {0}
  /\ None \notin Requests

VARIABLES
  routes,   \* RouteMux.routes
  stream,   \* what the peer sends
  arrived, filled, pos, start,
  step,     \* where readLdapMessageBytes is, or how it ended
  len,      \* tagAndLength.Length
  more,     \* bytes of the length that are still to come
  frames,   \* history: what was taken for messages
  torn,     \* history: whether a read from the connection ended or failed within a body
  last      \* history: the request served last, and the route that it took

wireVars == <<routes, stream, arrived>>
readVars == <<filled, pos, start, torn>>
framingVars == <<wireVars, readVars, step, len, more, frames, last>>

FramingTypeOK ==
  /\ routes \in Seq(Route) /\ stream \in Seq(0 .. 255) /\ torn \in BOOLEAN
  /\ step \in {"tag", "length", "digits", "body", "decode", "closed", "refused", "panic"}
  /\ more \in 0 .. 127
  /\ last \in {None} \cup [req : Requests, route : 0 .. Len(routes)]

FramingInit ==
  /\ \E s \in Sessions : routes = Registered(s.chains) /\ stream = s.stream
  /\ arrived = 0 /\ filled = 0 /\ pos = 0 /\ start = 0
  /\ torn = FALSE
  /\ step = "tag" /\ len = 0 /\ more = 0
  /\ frames = <<>> /\ last = None

-----------------------------------------------------------------------------
(* The network *)

Arrive(n) ==
  /\ arrived + n <= Len(stream)
  /\ arrived' = arrived + n
  /\ UNCHANGED <<routes, stream, readVars, step, len, more, frames, last>>

-----------------------------------------------------------------------------
(* What the messages of a stream s are: 0x30, a length in one byte or in as *)
(* many as that byte says, and the body.  p bytes come before the message.  *)

\* The digit of weight 256^k.
Digit(ds, k) == IF k < Len(ds) THEN ds[Len(ds) - k] ELSE 0
Representable(ds) == \A k \in 3 .. Len(ds) : Digit(ds, k) < IF k = 3 THEN 128 ELSE 1
Value(ds) ==
  Digit(ds, 0) + 256 * Digit(ds, 1) + 65536 * Digit(ds, 2) + 16777216 * Digit(ds, 3)

Header(s, p) == IF s[p + 2] < 128 THEN 2 ELSE s[p + 2] - 126
Digits(s, p) == SubSeq(s, p + 3, p + Header(s, p))
Body(s, p) == IF s[p + 2] < 128 THEN s[p + 2] ELSE Value(Digits(s, p))

HasLength(s, p) ==
  /\ p + 2 <= Len(s) /\ s[p + 1] = 48 /\ s[p + 2] # 128
  /\ p + Header(s, p) <= Len(s) /\ Representable(Digits(s, p))
IsMessage(s, p) == HasLength(s, p) /\ Body(s, p) <= Len(s) - (p + Header(s, p))

\* Where the messages that s begins with end.
Ends(s) ==
  LET end[n \in Nat] ==
        IF n = 0 THEN 0
        ELSE LET p == end[n - 1] IN
               IF IsMessage(s, p) THEN p + Header(s, p) + Body(s, p) ELSE p
  IN  end

\* Whether p is within the body of a message, which may be the last and cut short.
TornAt(s, p) == \E n \in 0 .. Len(s) :
  LET from == Ends(s)[n] IN
    /\ HasLength(s, from)
    /\ 0 < p - (from + Header(s, from)) /\ p - (from + Header(s, from)) < Body(s, from)

-----------------------------------------------------------------------------
(* readLdapMessageBytes *)

Least(a, b) == IF a < b THEN a ELSE b

\* bufio.Reader.Read of n bytes, of which it returns some: what the buffer
\* has, or, if that is empty, what one read from the connection brings.  That
\* read fails if nothing has come in 5 seconds (TimeoutConn), or the peer left.
Read(n) ==
  /\ \/ /\ pos < filled \/ n = 0 \/ arrived = filled
        /\ UNCHANGED filled
     \/ /\ pos = filled /\ n > 0 /\ arrived > filled
        /\ filled' = filled + Least(arrived - filled, IF n < BufSize THEN BufSize ELSE n)
  /\ pos' = pos + Least(n, filled' - pos)
  /\ torn' = \/ torn
             \/ filled' # filled /\ TornAt(stream, filled')
             \/ step = "body" /\ n > 0 /\ pos' = pos
Failed == pos' = pos
LastByte == stream[pos']

\* 0x30, or a panic that nothing recovers.
ReadTag ==
  /\ step = "tag"
  /\ Read(1)
  /\ step' = IF Failed THEN "closed" ELSE IF LastByte = 48 THEN "length" ELSE "panic"
  /\ start' = pos
  /\ last' = None
  /\ UNCHANGED <<wireVars, len, more, frames>>

\* int(b & 0x7f)
DigitsAfter_Unmasked(b) == b
DigitsAfter_OneMore(b) == b - 127
DigitsAfter(b) == b - 128

\* In 7 bits, or the number of bytes that follow, which may not be 0.
ReadLength ==
  /\ step = "length"
  /\ Read(1)
  /\ \/ /\ Failed \/ LastByte = 128
        /\ step' = IF Failed THEN "closed" ELSE "refused"
        /\ UNCHANGED <<len, more>>
     \/ /\ ~Failed /\ LastByte < 128
        /\ step' = "body" /\ len' = LastByte
        /\ UNCHANGED more
     \/ /\ ~Failed /\ LastByte > 128
        /\ step' = "digits" /\ len' = 0 /\ more' = DigitsAfter(LastByte)
  /\ UNCHANGED <<wireVars, start, frames, last>>

\* len << 8, as an int of 32 bits.
Shifted(n) ==
  LET low == n % 16777216 IN (IF low < 8388608 THEN low ELSE low - 16777216) * 256

\* Whether "length too large" is returned, before the byte is shifted in.
TooLarge_ByOne == len > 8388608
TooLarge_Early == len >= 4194304
TooLarge == len >= 8388608      \* 1 << 23

ReadDigit ==
  /\ step = "digits"
  /\ Read(1)
  /\ \/ /\ Failed \/ TooLarge
        /\ step' = IF Failed THEN "closed" ELSE "refused"
        /\ UNCHANGED <<len, more>>
     \/ /\ ~Failed /\ ~TooLarge
        /\ len' = Shifted(len) + LastByte
        /\ more' = more - 1
        /\ step' = IF more = 1 THEN "body" ELSE "digits"
  /\ UNCHANGED <<wireVars, start, frames, last>>

\* The body is what one Read returns; neither a short read nor the end of the
\* connection is an error here, and the rest of the body is zeroes.
ReadBody ==
  /\ step = "body"
  /\ Read(len)
  /\ frames' = Append(frames, [start |-> start, body |-> len, read |-> pos' - pos])
  /\ step' = "decode"
  /\ UNCHANGED <<wireVars, start, len, more, last>>

-----------------------------------------------------------------------------
(* readMessage and ServeLDAP.  goldap, which decodes, is external: a body   *)
(* may be any request or none.                                              *)

NotDecoded ==
  /\ step = "decode"
  /\ step' = "tag"
  /\ UNCHANGED <<wireVars, readVars, len, more, frames, last>>

ServeLDAP(m) ==
  /\ step = "decode"
  /\ step' = "tag"
  /\ last' = [req |-> m, route |-> Chosen(routes, m)]
  /\ UNCHANGED <<wireVars, readVars, len, more, frames>>

FramingNext ==
  \/ \E n \in 1 .. Len(stream) : Arrive(n)
  \/ ReadTag \/ ReadLength \/ ReadDigit \/ ReadBody
  \/ NotDecoded \/ \E m \in Requests : ServeLDAP(m)

FramingSpec == FramingInit /\ [][FramingNext]_framingVars

-----------------------------------------------------------------------------
(* Properties *)

\* packet.go 51-60: if no read from the connection ends within a body, however
\* the network splits and joins messages otherwise, what is taken for a message
\* is the next message of the stream, and nothing of a message is refused or
\* panics.
FramesAreMessages ==
  ~torn =>
    /\ \A i \in DOMAIN frames :
         LET from == Ends(stream)[i - 1] IN
           /\ IsMessage(stream, from)
           /\ frames[i] = [start |-> from, body |-> Body(stream, from), read |-> Body(stream, from)]
    /\ step \in {"refused", "panic"} =>
         start = Ends(stream)[Len(frames)] /\ ~IsMessage(stream, start)

\* packet.go 107-119: a length of up to 2^31 - 1, leading zeroes and all, is
\* taken for what it is; whatever is greater is refused, and nothing else.
LengthIsExact ==
  step \in {"body", "refused"} /\ stream[start + 2] > 128 =>
    LET read == SubSeq(stream, start + 3, pos) IN
      IF step = "body" THEN Representable(read) /\ len = Value(read)
                       ELSE ~Representable(read)

\* packet.go 113, 138: the length that make is called with is never negative,
\* and the reader never gets ahead of the network.
ReaderInBounds ==
  /\ 0 <= len /\ len <= 2147483647
  /\ start <= pos /\ pos <= filled /\ filled <= arrived /\ arrived <= Len(stream)

\* route.go 138-139, "whose pattern most closely matches": the first route that
\* matches is the closest one if closer routes were registered first; and what
\* falls through fits no route, in whatever case names were written.
Fits(r, m) ==
  /\ r.op = m.op
  /\ \A f \in Looks(m.op) : r.want[f] = Unasked \/ Folded(f, r.want[f]) = Folded(f, m.has[f])
Closer(r, q) ==
  /\ r.op = q.op
  /\ \A f \in Looks(r.op) : q.want[f] \in {Unasked, r.want[f]}
  /\ \E f \in Looks(r.op) : q.want[f] # r.want[f]

ClosestRoute ==
  last # None =>
    LET fits == {i \in DOMAIN routes : Fits(routes[i], last.req)} IN
      /\ last.route = 0 <=> fits = {}
      /\ (\A i, j \in DOMAIN routes : i < j => ~Closer(routes[j], routes[i]))
           => \A i \in fits : ~Closer(routes[i], routes[last.route])
=============================================================================
