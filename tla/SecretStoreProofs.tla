------------------------- MODULE SecretStoreProofs -------------------------
(***************************************************************************)
(* SecretStore: a secret file can always be read, and what is read is what *)
(* was in memory, for any number of scratch codes, hosts, slots and times. *)
(***************************************************************************)
EXTENDS SecretStore, GGConfigProofs

\* What Parse and the round trip need: the configuration is one that a file
\* can hold, and the file has the lines of such a configuration.
FileInv ==
  /\ cfg \in Config
  /\ InRange(cfg)
  /\ file # << >> => \E c \in Config : InRange(c) /\ Describes(file, c)

\* A file without a secret is refused, and so is one of a blank host.
LEMMA ReadableIsRead ==
  ASSUME NEW c \in Config, InRange(c), NEW f, Describes(f, c), Parse(f).ok
  PROVE  ~HasBlankHost(c) /\ Parse(f) = Parsed(ReadBack(c))
<1>1. ~Rejected.ok
  BY DEF Rejected
<1>2. ASSUME c.secret = "missing"
      PROVE  FALSE
  <2>1. Parse(f) = Rejected
    BY <1>2 DEF Describes, SecretLine, Parse
  <2> QED
    BY <1>1, <2>1
<1> QED
  BY <1>1, <1>2, DescribedIsRead

\* There is no file at first.
LEMMA FileInvInit ==
  ASSUME Init
  PROVE  FileInv
BY StoreAssumption DEF Init, FileInv

\* Save leaves a file with the lines of what is in memory.
LEMMA SaveKeepsFile ==
  ASSUME FileInv, Save
  PROVE  FileInv'
<1> DEFINE c == cfg
           d == [c EXCEPT !.dirty = FALSE]
<1>1. c \in Config /\ InRange(c) /\ file' = Bytes(c) /\ cfg' = d
  BY DEF FileInv, Save
<1> HIDE DEF c
<1>2. Describes(file', c)
  BY <1>1, BytesDescribe
<1>3. d \in Config
  BY <1>1 DEF Config
<1>4. /\ d.stepSize = c.stepSize /\ d.windowSize = c.windowSize
      /\ d.rateLimit = c.rateLimit /\ d.samples = c.samples
      /\ d.hotpConfigured = c.hotpConfigured /\ d.hotpCounter = c.hotpCounter
      /\ d.disallowReuse = c.disallowReuse /\ d.disallowed = c.disallowed
      /\ d.lastLogins = c.lastLogins
  BY <1>1 DEF Config
<1> HIDE DEF d
<1>5. SamplesInRange(d) /\ LoginsInRange(d)
  BY <1>1, <1>4 DEF InRange, SamplesInRange, LoginsInRange
<1>6. InRange(d)
  BY <1>1, <1>4, <1>5, SameRange
<1> QED
  BY <1>1, <1>2, <1>3, <1>6 DEF FileInv

\* Load gives what comes back of the configuration whose lines the file has.
LEMMA LoadKeepsFile ==
  ASSUME FileInv, Load
  PROVE  FileInv'
<1>1. Parse(file).ok /\ cfg' = Parse(file).cfg /\ file' = file
  BY DEF Load
<1>2. file # << >>
  BY <1>1 DEF Parse, Rejected
<1>3. PICK c \in Config : InRange(c) /\ Describes(file, c)
  BY <1>2 DEF FileInv
<1>4. ~HasBlankHost(c) /\ cfg' = ReadBack(c)
  BY <1>1, <1>3, ReadableIsRead DEF Parsed
<1>5. cfg' \in Config /\ InRange(cfg')
  BY <1>3, <1>4, ReadBackInRange
<1> QED
  BY <1>1, <1>3, <1>5 DEF FileInv

\* A file has the same lines in another order.
LEMMA SwapKeepsFile ==
  ASSUME FileInv, NEW i \in DOMAIN file, NEW j \in DOMAIN file, SwapLines(i, j)
  PROVE  /\ Describes(file, cfg) /\ Describes(file', cfg)
         /\ FileInv'
<1>1. /\ cfg \in Config /\ InRange(cfg) /\ cfg' = cfg /\ file = Bytes(cfg)
      /\ i \in DOMAIN file \ {1} /\ j \in DOMAIN file \ {1}
      /\ file' = [file EXCEPT ![i] = file[j], ![j] = file[i]]
  BY DEF FileInv, SwapLines
<1>2. Describes(file, cfg)
  BY <1>1, BytesDescribe
<1>3. Describes(file', cfg)
  BY <1>1, <1>2, SwapDescribed
<1> QED
  BY <1>1, <1>2, <1>3 DEF FileInv

\* So has it after every step of a login, a save or an edit.
LEMMA FileInvNext ==
  ASSUME FileInv, [Next]_vars
  PROVE  FileInv'
<1> USE DEF FileInv
<1>1. CASE Save
  BY <1>1, SaveKeepsFile
<1>2. CASE Load
  BY <1>2, LoadKeepsFile
<1>3. ASSUME NEW now \in Times, CountAttempt(now)
      PROVE  FileInv'
  BY <1>3, StoreAssumption, EnforceRateLimitRange DEF CountAttempt
<1>4. ASSUME NEW counter \in UsedCounters, UseCounter(counter)
      PROVE  FileInv'
  BY <1>4, StoreAssumption, RecordUsedTimestampRange DEF UseCounter
<1>5. ASSUME NEW code \in ScratchCodes, UseScratch(code)
      PROVE  FileInv'
  BY <1>5, UseScratchCodeRange DEF UseScratch
<1>6. ASSUME NEW now \in Times, NEW skew \in Skews, ObserveSkew(now, skew)
      PROVE  FileInv'
  BY <1>6, StoreAssumption, RecordSkewObservationRange DEF ObserveSkew
<1>7. ASSUME NEW host \in Hosts, NEW now \in Times, RememberHost(host, now)
      PROVE  FileInv'
  BY <1>7, StoreAssumption, UpdateLoginRecordRange DEF RememberHost
<1>8. ASSUME NEW i \in DOMAIN file, NEW j \in DOMAIN file, SwapLines(i, j)
      PROVE  FileInv'
  BY <1>8, SwapKeepsFile
<1>9. CASE UNCHANGED vars
  BY <1>9 DEF vars
<1>10. CASE Refuse
  BY <1>9, <1>10 DEF Refuse
<1> QED
  BY <1>1, <1>2, <1>3, <1>4, <1>5, <1>6, <1>7, <1>8, <1>9, <1>10 DEF Next

\* Memory and the file are configurations that a file can hold, whatever logins,
\* saves, loads and edits there were (Bytes, Parse, Save).
THEOREM FileInvariant == Spec => []FileInv
<1>1. Init => FileInv
  BY FileInvInit
<1>2. FileInv /\ [Next]_vars => FileInv'
  BY FileInvNext
<1> QED
  BY <1>1, <1>2, PTL DEF Spec

\* Logins keep the configuration within its type.
THEOREM StoreTypeCorrect == Spec => []TypeOK
<1>1. FileInv => TypeOK
  BY DEF FileInv, TypeOK
<1> QED
  BY <1>1, FileInvariant, PTL

\* Parse reads back what Bytes wrote, a host with its blanks joined, and rejects
\* the file if a host is nothing but blanks.
THEOREM RoundTripCorrect == Spec => []RoundTrip
<1>1. FileInv => RoundTrip
  <2> DEFINE c == cfg
  <2>1. ASSUME FileInv, c.secret # "missing"
        PROVE  Parse(Bytes(c)) =
                 IF HasBlankHost(c) THEN Rejected ELSE Parsed(ReadBack(c))
    <3>1. c \in Config /\ InRange(c)
      BY <2>1 DEF FileInv
    <3> HIDE DEF c
    <3>2. Describes(Bytes(c), c)
      BY <3>1, BytesDescribe
    <3> QED
      BY <2>1, <3>1, <3>2, DescribedIsRead
  <2> QED
    BY <2>1 DEF RoundTrip
<1> QED
  BY <1>1, FileInvariant, PTL

\* Where no host has white space to lose, all that a file forgets are records of
\* time zero: what logins put in place, in PamLogin, is what the next one loads.
THEOREM PlainHostsComeBack ==
  ASSUME NEW c \in Config, InRange(c), c.secret # "missing",
         \A h \in Hosts : Rejoined[h] = h
  PROVE  Parse(Bytes(c)) = Parsed(Stored(c))
<1>1. c.lastLogins \in [Slots -> LoginRecord] /\ LoginsInRange(c)
  BY DEF Config, InRange
<1>2. ASSUME NEW i \in Slots
      PROVE  /\ IsWritten(c.lastLogins[i]) <=> c.lastLogins[i].when # 0
             /\ IsWritten(c.lastLogins[i]) =>
                  /\ Rejoined[c.lastLogins[i].host] # NoHost
                  /\ Rejoin(c.lastLogins[i]) = c.lastLogins[i]
  <2>1. c.lastLogins[i] \in LoginRecord
        /\ (c.lastLogins[i].host = NoHost => c.lastLogins[i].when = 0)
    BY <1>1 DEF LoginsInRange
  <2>2. c.lastLogins[i].host # NoHost => Rejoined[c.lastLogins[i].host] = c.lastLogins[i].host
    BY <2>1 DEF LoginRecord
  <2> QED
    BY <2>1, <2>2 DEF IsWritten, Rejoin, LoginRecord
<1>3. ~HasBlankHost(c)
  BY <1>2 DEF HasBlankHost
<1>4. ReadBack(c) = Stored(c)
  <2> DEFINE kept == [i \in Slots |-> IF c.lastLogins[i].when = 0 THEN NoLogin
                                      ELSE c.lastLogins[i]]
             back == [i \in Slots |-> IF IsWritten(c.lastLogins[i])
                                      THEN Rejoin(c.lastLogins[i]) ELSE NoLogin]
  <2>1. kept = back
    BY <1>2
  <2>2. /\ Stored(c) = [c EXCEPT !.dirty = FALSE, !.lastLogins = kept]
        /\ ReadBack(c) = [c EXCEPT !.dirty = FALSE, !.lastLogins = back]
    BY DEF Stored, ReadBack, Config
  <2> QED
    BY <2>1, <2>2
<1> QED
  BY <1>3, <1>4, BytesDescribe, DescribedIsRead

\* Two files with the lines of one configuration are read alike.
LEMMA DescribedAlike ==
  ASSUME NEW c \in Config, InRange(c), NEW f, NEW g, Describes(f, c), Describes(g, c)
  PROVE  Parse(f) = Parse(g)
<1>1. CASE c.secret = "missing"
  BY <1>1 DEF Describes, SecretLine, Parse
<1>2. CASE c.secret # "missing"
  BY <1>2, DescribedIsRead
<1> QED
  BY <1>1, <1>2

\* The order of the lines below the secret means nothing.
THEOREM OrderCorrect == Spec => OrderIrrelevant
<1> DEFINE Swapped == \E i, j \in DOMAIN file : SwapLines(i, j)
<1>1. FileInv /\ [Next]_vars => (Swapped => Parse(file') = Parse(file))
  <2>1. SUFFICES ASSUME FileInv, NEW i \in DOMAIN file, NEW j \in DOMAIN file,
                        SwapLines(i, j)
                 PROVE  Parse(file') = Parse(file)
    OBVIOUS
  <2>2. /\ cfg \in Config /\ InRange(cfg)
        /\ Describes(file, cfg) /\ Describes(file', cfg)
    BY <2>1, SwapKeepsFile DEF FileInv
  <2> QED
    BY <2>2, DescribedAlike
<1>2. FileInv /\ [Next]_vars => [Swapped => Parse(file') = Parse(file)]_vars
  BY <1>1
<1> QED
  BY <1>2, FileInvariant, PTL DEF OrderIrrelevant, Spec
=============================================================================
