-------------------------- MODULE SshSessionProofs --------------------------
(***************************************************************************)
(* What SshSession guarantees for any answers of the API, any commands and *)
(* any number of sessions: unless the command is led by a dash, the client *)
(* reads its arguments as they were meant and gets where the API said.     *)
(*                                                                         *)
(* The argument is about the layout of the array: which places the client  *)
(* stops at, what stands there, and what it knows when it is there.        *)
(*                                                                         *)
(* Then of ControlDirectory, for any processes: what each knows of the     *)
(* candidate it is at, and that all decide alike.                          *)
(***************************************************************************)
EXTENDS SessionParts, SequenceTheorems, TLAPS

-----------------------------------------------------------------------------
(* The layout of the argument array.                                       *)

Own == {"-T", "-o", "-p", "BatchMode=yes", "ControlMaster=auto", "ControlPersist=60s",
        "ControlPath"}
Texts == Own \cup STRING \cup Hosts \cup Ports
Arguments == [user : {""} \cup Users, text : Texts]

\* Where the options of pooling begin, the port, and the destination.
PoolAt == IF mode = "captured" THEN 4 ELSE 1
PortAt == IF MayPool THEN PoolAt + 6 ELSE PoolAt
Destination == PortAt + 2
End == Destination + Len(remote) + 1

Laid ==
    /\ mode = "captured" =>
          /\ arguments[1] = Word("-T") /\ arguments[2] = Word("-o")
          /\ arguments[3] = Word("BatchMode=yes")
    /\ MayPool =>
          /\ arguments[PoolAt] = Word("-o")
          /\ arguments[PoolAt + 1] = Word("ControlMaster=auto")
          /\ arguments[PoolAt + 2] = Word("-o")
          /\ arguments[PoolAt + 3] = Word("ControlPersist=60s")
          /\ arguments[PoolAt + 4] = Word("-o")
          /\ arguments[PoolAt + 5] = Word("ControlPath")
    /\ arguments[PortAt] = Word("-p")
    /\ arguments[PortAt + 1] = Word(target.port)
    /\ arguments[Destination] = [user |-> target.user, text |-> target.host]
    /\ Len(arguments) + 1 = End
    /\ \A i \in 1 .. Len(remote) : arguments[Destination + i] = Word(remote[i])

\* The places the client stops at.
Stops ==
    {1, PoolAt, PortAt, Destination, Destination + 1, End}
      \cup (IF mode = "captured" THEN {2} ELSE {})
      \cup (IF MayPool THEN {PoolAt + 2, PoolAt + 4} ELSE {})

\* What it knows there.
Fields ==
    client = [options |-> client.options, port |-> client.port, user |-> client.user,
              host |-> client.host, command |-> client.command, ended |-> client.ended]

\* Up to the command, or to the end if that is not led by a dash.
OwnRead ==
    /\ place \in Stops
    /\ ~ client.ended
    /\ place <= PortAt => client.port = ""
    /\ place > PortAt => client.port = target.port
    /\ place <= Destination => client.host = "" /\ client.user = ""
    /\ place > Destination => client.user = target.user /\ client.host = target.host
    /\ place <= Destination + 1 => client.command = <<>>
    /\ place > Destination + 1 => client.command = remote
    /\ "BatchMode=yes" \in client.options <=> mode = "captured" /\ place >= PoolAt
    /\ "HostName" \notin client.options

\* Among the options a command led by a dash may begin with.
LedRead ==
    /\ LedByDash /\ place > Destination + 1
    /\ client.user = target.user /\ client.host = target.host
    /\ client.port = target.port
    /\ mode = "captured" => "BatchMode=yes" \in client.options

Read == Fields /\ (OwnRead \/ LedRead)

\* A connection leads where its name says.
SocketsFit ==
    \A s \in DOMAIN sockets : sockets[s] = [host |-> s[1], user |-> s[3], port |-> s[2]]

Started == {"spawn", "reading", "connected"}

SInv ==
    /\ TypeOK
    /\ Len(arguments) \in Nat
    /\ SocketsFit
    /\ pc \in {"check", "fetch", "build", "spawn", "failed"} => place = 1 /\ client = Unread
    /\ pc \in {"build"} \cup Started => target \in SshTarget
    /\ pc \in Started => Laid /\ ~ CommandIsMissing
    /\ pc \in {"reading", "connected"} => Read
    /\ pc = "connected" =>
          /\ place = End
          /\ reached = [host |-> HostName, user |-> client.user, port |-> client.port]
    /\ pc = "refused" => LedByDash

-----------------------------------------------------------------------------
(* The layout is what build_arguments makes.                               *)

LEMMA Joined ==
    ASSUME NEW S, NEW a \in Seq(S), NEW b \in Seq(S)
    PROVE  /\ a \o b \in Seq(S) /\ Len(a \o b) = Len(a) + Len(b)
           /\ Len(a) \in Nat /\ Len(b) \in Nat
           /\ \A i \in 1 .. Len(a) : (a \o b)[i] = a[i]
           /\ \A i \in 1 .. Len(b) : (a \o b)[Len(a) + i] = b[i]
<1>1. Len(a) \in Nat /\ Len(b) \in Nat
  BY LenProperties
<1>2. /\ a \o b \in Seq(S) /\ Len(a \o b) = Len(a) + Len(b)
      /\ \A i \in 1 .. Len(a) + Len(b) :
            (a \o b)[i] = IF i <= Len(a) THEN a[i] ELSE b[i - Len(a)]
  BY ConcatProperties
<1>3. ASSUME NEW i \in 1 .. Len(b) PROVE (a \o b)[Len(a) + i] = b[i]
  <2>1. Len(a) + i \in 1 .. Len(a) + Len(b) /\ ~ (Len(a) + i <= Len(a))
        /\ (Len(a) + i) - Len(a) = i
    BY <1>1
  <2>. QED  BY <1>2, <2>1
<1>4. \A i \in 1 .. Len(a) : (a \o b)[i] = a[i]
  BY <1>1, <1>2
<1>. QED  BY <1>1, <1>2, <1>3, <1>4

LEMMA WordsAre ==
    ASSUME NEW texts \in Seq(Texts)
    PROVE  /\ Words(texts) \in Seq(Arguments) /\ Len(Words(texts)) = Len(texts)
           /\ Len(texts) \in Nat
           /\ \A i \in 1 .. Len(texts) : Words(texts)[i] = Word(texts[i])
<1>1. Len(texts) \in Nat /\ DOMAIN texts = 1 .. Len(texts)
  BY LenProperties
<1>2. \A i \in 1 .. Len(texts) : Word(texts[i]) \in Arguments
  <2>1. \A i \in 1 .. Len(texts) : texts[i] \in Texts
    BY ElementOfSeq
  <2>. QED  BY <2>1 DEF Word, Arguments
<1>3. Words(texts) \in [1 .. Len(texts) -> Arguments]
  BY <1>1, <1>2 DEF Words
<1>4. Words(texts) \in Seq(Arguments)
  BY <1>1, <1>3, SeqDef
<1>5. Len(Words(texts)) = Len(texts)
  <2>. DEFINE w == Words(texts)
              n == Len(texts)
  <2>1. w \in Seq(Arguments) /\ DOMAIN w = 1 .. n /\ n \in Nat
    BY <1>1, <1>3, <1>4
  <2>. HIDE DEF w, n
  <2>2. DOMAIN w = 1 .. Len(w) /\ Len(w) \in Nat
    BY <2>1, LenProperties
  <2>3. Len(w) = n
    BY <2>1, <2>2
  <2>. QED  BY <2>3 DEF w, n
<1>. QED  BY <1>1, <1>4, <1>5 DEF Words

LEMMA PairIs ==
    ASSUME NEW a \in Texts, NEW b \in Texts
    PROVE  /\ Words(<<a, b>>) \in Seq(Arguments) /\ Len(Words(<<a, b>>)) = 2
           /\ Words(<<a, b>>)[1] = Word(a) /\ Words(<<a, b>>)[2] = Word(b)
<1>. DEFINE pair == <<a, b>>
<1>1. pair \in Seq(Texts) /\ Len(pair) = 2 /\ pair[1] = a /\ pair[2] = b
  OBVIOUS
<1>. HIDE DEF pair
<1>2. /\ Words(pair) \in Seq(Arguments) /\ Len(Words(pair)) = 2
      /\ Words(pair)[1] = Word(pair[1]) /\ Words(pair)[2] = Word(pair[2])
  BY <1>1, WordsAre
<1>. QED  BY <1>1, <1>2 DEF pair

LEMMA OptionIs ==
    ASSUME NEW setting \in Own
    PROVE  /\ Option(setting) \in Seq(Arguments) /\ Len(Option(setting)) = 2
           /\ Option(setting)[1] = Word("-o") /\ Option(setting)[2] = Word(setting)
<1>1. "-o" \in Texts /\ setting \in Texts
  BY DEF Texts, Own
<1>2. Option(setting) = Words(<<"-o", setting>>)
  BY DEF Option
<1>. QED  BY <1>1, <1>2, PairIs

LEMMA CapturedAre ==
    /\ CapturedArguments \in Seq(Arguments)
    /\ Len(CapturedArguments) = IF mode = "captured" THEN 3 ELSE 0
    /\ mode = "captured" =>
          /\ CapturedArguments[1] = Word("-T") /\ CapturedArguments[2] = Word("-o")
          /\ CapturedArguments[3] = Word("BatchMode=yes")
<1>1. CASE mode # "captured"
  BY <1>1 DEF CapturedArguments
<1>2. CASE mode = "captured"
  <2>. DEFINE t == <<"-T">>
              a == Words(t)
              b == Option("BatchMode=yes")
  <2>1. t \in Seq(Texts) /\ Len(t) = 1 /\ t[1] = "-T"
    <3>1. "-T" \in Texts
      BY DEF Texts, Own
    <3>. QED  BY <3>1
  <2>. HIDE DEF t
  <2>2. a \in Seq(Arguments) /\ Len(a) = 1 /\ a[1] = Word("-T")
    BY <2>1, WordsAre
  <2>3. b \in Seq(Arguments) /\ Len(b) = 2 /\ b[1] = Word("-o")
        /\ b[2] = Word("BatchMode=yes")
    BY OptionIs DEF Own
  <2>. HIDE DEF a, b
  <2>4. /\ a \o b \in Seq(Arguments) /\ Len(a \o b) = 1 + 2
        /\ \A i \in 1 .. 1 : (a \o b)[i] = a[i]
        /\ \A i \in 1 .. 2 : (a \o b)[1 + i] = b[i]
    <3>1. /\ a \o b \in Seq(Arguments) /\ Len(a \o b) = Len(a) + Len(b)
          /\ \A i \in 1 .. Len(a) : (a \o b)[i] = a[i]
          /\ \A i \in 1 .. Len(b) : (a \o b)[Len(a) + i] = b[i]
      <4>1. a \in Seq(Arguments) /\ b \in Seq(Arguments)
        BY <2>2, <2>3
      <4>. QED  BY <4>1, Joined
    <3>. QED  BY <2>2, <2>3, <3>1
  <2>5. (a \o b)[1] = a[1] /\ (a \o b)[2] = b[1] /\ (a \o b)[3] = b[2]
    BY <2>4
  <2>6. CapturedArguments = a \o b
    BY <1>2 DEF CapturedArguments, a, b, t
  <2>. QED  BY <1>2, <2>2, <2>3, <2>4, <2>5, <2>6
<1>. QED  BY <1>1, <1>2

LEMMA PoolAre ==
    /\ PoolArguments \in Seq(Arguments)
    /\ Len(PoolArguments) = IF MayPool THEN 6 ELSE 0
    /\ MayPool =>
          /\ PoolArguments[1] = Word("-o")
          /\ PoolArguments[2] = Word("ControlMaster=auto")
          /\ PoolArguments[3] = Word("-o")
          /\ PoolArguments[4] = Word("ControlPersist=60s")
          /\ PoolArguments[5] = Word("-o")
          /\ PoolArguments[6] = Word("ControlPath")
<1>1. CASE ~ MayPool
  BY <1>1 DEF PoolArguments
<1>2. CASE MayPool
  <2>. DEFINE a == Option("ControlMaster=auto")
              b == Option("ControlPersist=60s")
              c == Option("ControlPath")
              ab == a \o b
  <2>1. a \in Seq(Arguments) /\ Len(a) = 2 /\ a[1] = Word("-o")
        /\ a[2] = Word("ControlMaster=auto")
    BY OptionIs DEF Own
  <2>2. b \in Seq(Arguments) /\ Len(b) = 2 /\ b[1] = Word("-o")
        /\ b[2] = Word("ControlPersist=60s")
    BY OptionIs DEF Own
  <2>3. c \in Seq(Arguments) /\ Len(c) = 2 /\ c[1] = Word("-o")
        /\ c[2] = Word("ControlPath")
    BY OptionIs DEF Own
  <2>. HIDE DEF a, b, c
  <2>4. /\ ab \in Seq(Arguments) /\ Len(ab) = 4
        /\ \A i \in 1 .. 2 : ab[i] = a[i]
        /\ \A i \in 1 .. 2 : ab[2 + i] = b[i]
    <3>1. /\ a \o b \in Seq(Arguments) /\ Len(a \o b) = Len(a) + Len(b)
          /\ \A i \in 1 .. Len(a) : (a \o b)[i] = a[i]
          /\ \A i \in 1 .. Len(b) : (a \o b)[Len(a) + i] = b[i]
      <4>1. a \in Seq(Arguments) /\ b \in Seq(Arguments)
        BY <2>1, <2>2
      <4>. QED  BY <4>1, Joined
    <3>. QED  BY <2>1, <2>2, <3>1
  <2>5. ab[1] = a[1] /\ ab[2] = a[2] /\ ab[3] = b[1] /\ ab[4] = b[2]
    BY <2>4
  <2>. HIDE DEF ab
  <2>6. /\ ab \o c \in Seq(Arguments) /\ Len(ab \o c) = 6
        /\ \A i \in 1 .. 4 : (ab \o c)[i] = ab[i]
        /\ \A i \in 1 .. 2 : (ab \o c)[4 + i] = c[i]
    <3>1. /\ ab \o c \in Seq(Arguments) /\ Len(ab \o c) = Len(ab) + Len(c)
          /\ \A i \in 1 .. Len(ab) : (ab \o c)[i] = ab[i]
          /\ \A i \in 1 .. Len(c) : (ab \o c)[Len(ab) + i] = c[i]
      <4>1. ab \in Seq(Arguments) /\ c \in Seq(Arguments)
        BY <2>3, <2>4
      <4>. QED  BY <4>1, Joined
    <3>. QED  BY <2>3, <2>4, <3>1
  <2>7. /\ (ab \o c)[1] = ab[1] /\ (ab \o c)[2] = ab[2] /\ (ab \o c)[3] = ab[3]
        /\ (ab \o c)[4] = ab[4] /\ (ab \o c)[5] = c[1] /\ (ab \o c)[6] = c[2]
    BY <2>6
  <2>8. PoolArguments = ab \o c
    BY <1>2 DEF PoolArguments, a, b, c, ab
  <2>. QED  BY <1>2, <2>1, <2>2, <2>3, <2>5, <2>6, <2>7, <2>8
<1>. QED  BY <1>1, <1>2

\* The numbers of the layout.
LEMMA Numbers ==
    ASSUME Len(remote) \in Nat
    PROVE  /\ PoolAt \in {1, 4} /\ PortAt \in {PoolAt, PoolAt + 6}
           /\ mode = "captured" => PoolAt = 4
           /\ mode # "captured" => PoolAt = 1
           /\ MayPool => PortAt = PoolAt + 6
           /\ ~ MayPool => PortAt = PoolAt
           /\ {PoolAt, PortAt, Destination, End} \subseteq Nat
           /\ Destination = PortAt + 2 /\ End = Destination + Len(remote) + 1
BY DEF PoolAt, PortAt, Destination, End

LEMMA RemoteIs ==
    ASSUME remote \in RemoteCommands \cup {<<>>}
    PROVE  remote \in Seq(Texts) /\ Len(remote) \in Nat
<1>1. remote \in Seq(STRING)
  <2>1. CASE remote \in RemoteCommands
    BY <2>1, SessionAssumption
  <2>2. CASE remote = <<>>
    BY <2>2, EmptySeq
  <2>. QED  BY <2>1, <2>2
<1>2. Len(remote) \in Nat /\ DOMAIN remote = 1 .. Len(remote)
      /\ remote \in [1 .. Len(remote) -> STRING]
  BY <1>1, LenProperties
<1>3. remote \in [1 .. Len(remote) -> Texts]
  BY <1>2 DEF Texts
<1>. QED  BY <1>2, <1>3, SeqDef

LEMMA BuildLays ==
    ASSUME TypeOK, target \in SshTarget, Build
    PROVE  Laid' /\ Len(arguments') \in Nat /\ ~ CommandIsMissing'
<1>. DEFINE port == Words(<<"-p", target.port>>)
            to == [user |-> target.user, text |-> target.host]
            last == Words(remote)
<1>1. /\ arguments' = CapturedArguments \o PoolArguments \o port \o <<to>> \o last
      /\ ~ CommandIsMissing
      /\ UNCHANGED <<mode, remote, pooling, controlPath, target>>
  BY DEF Build, asked
<1>2. target.host \in Hosts /\ target.user \in Users /\ target.port \in Ports
  BY DEF SshTarget
<1>3. /\ port \in Seq(Arguments) /\ Len(port) = 2
      /\ port[1] = Word("-p") /\ port[2] = Word(target.port)
  <2>1. "-p" \in Texts /\ target.port \in Texts
    BY <1>2 DEF Texts, Own
  <2>. QED  BY <2>1, PairIs
<1>4. <<to>> \in Seq(Arguments) /\ Len(<<to>>) = 1 /\ <<to>>[1] = to
  <2>1. to \in Arguments
    BY <1>2 DEF Arguments, Texts
  <2>. QED  BY <2>1
<1>5. /\ remote \in Seq(Texts) /\ Len(remote) \in Nat
      /\ last \in Seq(Arguments) /\ Len(last) = Len(remote)
      /\ \A i \in 1 .. Len(remote) : last[i] = Word(remote[i])
  BY RemoteIs, WordsAre DEF TypeOK
<1>. DEFINE d == <<to>>
            a == CapturedArguments
            b == PoolArguments
<1>6. a \in Seq(Arguments) /\ b \in Seq(Arguments) /\ d \in Seq(Arguments)
      /\ port \in Seq(Arguments) /\ last \in Seq(Arguments)
  BY <1>3, <1>4, <1>5, CapturedAre, PoolAre
<1>7. arguments' = a \o b \o port \o d \o last
  BY <1>1
<1>8. /\ Len(a) = PoolAt - 1 /\ Len(a) + Len(b) = PortAt - 1
      /\ Len(port) = 2 /\ Len(d) = 1 /\ Len(last) = Len(remote)
  BY <1>3, <1>4, <1>5, CapturedAre, PoolAre DEF PoolAt, PortAt
<1>. HIDE DEF a, b, port, d, last
<1>9. /\ Len(arguments') = Len(a) + Len(b) + Len(port) + Len(d) + Len(last)
      /\ \A i \in 1 .. Len(a) : arguments'[i] = a[i]
      /\ \A i \in 1 .. Len(b) : arguments'[Len(a) + i] = b[i]
      /\ \A i \in 1 .. Len(port) : arguments'[Len(a) + Len(b) + i] = port[i]
      /\ \A i \in 1 .. Len(d) : arguments'[Len(a) + Len(b) + Len(port) + i] = d[i]
      /\ \A i \in 1 .. Len(last) :
            arguments'[Len(a) + Len(b) + Len(port) + Len(d) + i] = last[i]
  <2>. DEFINE two == a \o b
              three == two \o port
              four == three \o d
              all == four \o last
              m == Len(a) + Len(b)
  <2>1. /\ two \in Seq(Arguments) /\ Len(two) = Len(a) + Len(b)
        /\ Len(a) \in Nat /\ Len(b) \in Nat
        /\ \A i \in 1 .. Len(a) : two[i] = a[i]
        /\ \A i \in 1 .. Len(b) : two[Len(a) + i] = b[i]
    BY <1>6, Joined
  <2>. HIDE DEF two
  <2>2. /\ three \in Seq(Arguments) /\ Len(three) = Len(two) + Len(port)
        /\ Len(two) \in Nat /\ Len(port) \in Nat
        /\ \A i \in 1 .. Len(two) : three[i] = two[i]
        /\ \A i \in 1 .. Len(port) : three[Len(two) + i] = port[i]
    <3>1. two \in Seq(Arguments)
      BY <2>1
    <3>. QED  BY <1>6, <3>1, Joined
  <2>. HIDE DEF three
  <2>3. /\ four \in Seq(Arguments) /\ Len(four) = Len(three) + Len(d)
        /\ Len(three) \in Nat /\ Len(d) \in Nat
        /\ \A i \in 1 .. Len(three) : four[i] = three[i]
        /\ \A i \in 1 .. Len(d) : four[Len(three) + i] = d[i]
    <3>1. three \in Seq(Arguments)
      BY <2>2
    <3>. QED  BY <1>6, <3>1, Joined
  <2>. HIDE DEF four
  <2>4. /\ Len(all) = Len(four) + Len(last)
        /\ Len(four) \in Nat /\ Len(last) \in Nat
        /\ \A i \in 1 .. Len(four) : all[i] = four[i]
        /\ \A i \in 1 .. Len(last) : all[Len(four) + i] = last[i]
    <3>1. four \in Seq(Arguments)
      BY <2>3
    <3>. QED  BY <1>6, <3>1, Joined
  <2>. HIDE DEF all
  <2>5. \A i \in 1 .. Len(a) : all[i] = a[i]
    <3>. SUFFICES ASSUME NEW i \in 1 .. Len(a) PROVE all[i] = a[i]
      OBVIOUS
    <3>1. i \in 1 .. Len(two) /\ i \in 1 .. Len(three) /\ i \in 1 .. Len(four)
      BY <2>1, <2>2, <2>3, <2>4
    <3>. QED  BY <2>1, <2>2, <2>3, <2>4, <3>1
  <2>6. \A i \in 1 .. Len(b) : all[Len(a) + i] = b[i]
    <3>. SUFFICES ASSUME NEW i \in 1 .. Len(b) PROVE all[Len(a) + i] = b[i]
      OBVIOUS
    <3>1. /\ Len(a) + i \in 1 .. Len(two) /\ Len(a) + i \in 1 .. Len(three)
          /\ Len(a) + i \in 1 .. Len(four)
      BY <2>1, <2>2, <2>3, <2>4
    <3>. QED  BY <2>1, <2>2, <2>3, <2>4, <3>1
  <2>7. \A i \in 1 .. Len(port) : all[m + i] = port[i]
    <3>. SUFFICES ASSUME NEW i \in 1 .. Len(port) PROVE all[m + i] = port[i]
      OBVIOUS
    <3>1. m + i \in 1 .. Len(three) /\ m + i \in 1 .. Len(four) /\ m = Len(two)
      BY <2>1, <2>2, <2>3, <2>4
    <3>. QED  BY <2>2, <2>3, <2>4, <3>1
  <2>8. \A i \in 1 .. Len(d) : all[m + Len(port) + i] = d[i]
    <3>. SUFFICES ASSUME NEW i \in 1 .. Len(d) PROVE all[m + Len(port) + i] = d[i]
      OBVIOUS
    <3>1. m + Len(port) + i \in 1 .. Len(four) /\ m + Len(port) = Len(three)
      BY <2>1, <2>2, <2>3, <2>4
    <3>. QED  BY <2>3, <2>4, <3>1
  <2>9. /\ \A i \in 1 .. Len(last) : all[m + Len(port) + Len(d) + i] = last[i]
        /\ Len(all) = m + Len(port) + Len(d) + Len(last)
    <3>1. m + Len(port) + Len(d) = Len(four)
      BY <2>1, <2>2, <2>3
    <3>. QED  BY <2>4, <3>1
  <2>10. arguments' = all
    BY <1>7 DEF all, four, three, two
  <2>. QED  BY <2>5, <2>6, <2>7, <2>8, <2>9, <2>10
<1>10. PoolAt \in Nat /\ PortAt \in Nat /\ PortAt >= 1
       /\ Destination = PortAt + 2 /\ End = Destination + Len(remote) + 1
       /\ Len(a) \in Nat /\ Len(b) \in Nat
  BY <1>5, <1>6, Numbers, LenProperties
<1>11. mode = "captured" =>
          /\ arguments'[1] = Word("-T") /\ arguments'[2] = Word("-o")
          /\ arguments'[3] = Word("BatchMode=yes")
  <2>. SUFFICES ASSUME mode = "captured"
                PROVE  /\ arguments'[1] = Word("-T") /\ arguments'[2] = Word("-o")
                       /\ arguments'[3] = Word("BatchMode=yes")
    OBVIOUS
  <2>1. Len(a) = 3 /\ a[1] = Word("-T") /\ a[2] = Word("-o") /\ a[3] = Word("BatchMode=yes")
    BY CapturedAre DEF a
  <2>. QED  BY <1>9, <2>1
<1>12. MayPool =>
          /\ arguments'[PoolAt] = Word("-o")
          /\ arguments'[PoolAt + 1] = Word("ControlMaster=auto")
          /\ arguments'[PoolAt + 2] = Word("-o")
          /\ arguments'[PoolAt + 3] = Word("ControlPersist=60s")
          /\ arguments'[PoolAt + 4] = Word("-o")
          /\ arguments'[PoolAt + 5] = Word("ControlPath")
  <2>. SUFFICES ASSUME MayPool
                PROVE  /\ arguments'[PoolAt] = Word("-o")
                       /\ arguments'[PoolAt + 1] = Word("ControlMaster=auto")
                       /\ arguments'[PoolAt + 2] = Word("-o")
                       /\ arguments'[PoolAt + 3] = Word("ControlPersist=60s")
                       /\ arguments'[PoolAt + 4] = Word("-o")
                       /\ arguments'[PoolAt + 5] = Word("ControlPath")
    OBVIOUS
  <2>1. /\ Len(b) = 6
        /\ b[1] = Word("-o") /\ b[2] = Word("ControlMaster=auto")
        /\ b[3] = Word("-o") /\ b[4] = Word("ControlPersist=60s")
        /\ b[5] = Word("-o") /\ b[6] = Word("ControlPath")
    BY PoolAre DEF b
  <2>2. \A i \in 1 .. 6 : arguments'[PoolAt - 1 + i] = b[i]
    BY <1>8, <1>9, <2>1
  <2>3. /\ PoolAt - 1 + 1 = PoolAt /\ PoolAt - 1 + 2 = PoolAt + 1
        /\ PoolAt - 1 + 3 = PoolAt + 2 /\ PoolAt - 1 + 4 = PoolAt + 3
        /\ PoolAt - 1 + 5 = PoolAt + 4 /\ PoolAt - 1 + 6 = PoolAt + 5
    BY <1>10
  <2>4. /\ arguments'[PoolAt - 1 + 1] = b[1] /\ arguments'[PoolAt - 1 + 2] = b[2]
        /\ arguments'[PoolAt - 1 + 3] = b[3] /\ arguments'[PoolAt - 1 + 4] = b[4]
        /\ arguments'[PoolAt - 1 + 5] = b[5] /\ arguments'[PoolAt - 1 + 6] = b[6]
    BY <2>2
  <2>. QED  BY <2>1, <2>3, <2>4
<1>13. arguments'[PortAt] = Word("-p") /\ arguments'[PortAt + 1] = Word(target.port)
  <2>1. \A i \in 1 .. 2 : arguments'[PortAt - 1 + i] = port[i]
    BY <1>8, <1>9
  <2>2. PortAt - 1 + 1 = PortAt /\ PortAt - 1 + 2 = PortAt + 1
    BY <1>10
  <2>3. arguments'[PortAt - 1 + 1] = port[1] /\ arguments'[PortAt - 1 + 2] = port[2]
    BY <2>1
  <2>. QED  BY <1>3, <2>2, <2>3
<1>14. arguments'[Destination] = to
  <2>1. \A i \in 1 .. 1 : arguments'[PortAt - 1 + 2 + i] = d[i]
    BY <1>8, <1>9
  <2>2. PortAt - 1 + 2 + 1 = Destination
    BY <1>10
  <2>3. arguments'[PortAt - 1 + 2 + 1] = d[1] /\ d[1] = to
    BY <1>4, <2>1 DEF d
  <2>. QED  BY <2>2, <2>3
<1>15. \A i \in 1 .. Len(remote) : arguments'[Destination + i] = Word(remote[i])
  <2>. SUFFICES ASSUME NEW i \in 1 .. Len(remote)
                PROVE  arguments'[Destination + i] = Word(remote[i])
    OBVIOUS
  <2>1. arguments'[Len(a) + Len(b) + Len(port) + Len(d) + i] = last[i]
    BY <1>8, <1>9
  <2>2. Len(a) + Len(b) + Len(port) + Len(d) = Destination
    BY <1>8, <1>10
  <2>. QED  BY <1>5, <2>1, <2>2 DEF last
<1>16. Len(arguments') + 1 = End /\ Len(arguments') \in Nat
  <2>1. Len(arguments') = Len(a) + Len(b) + Len(port) + Len(d) + Len(last)
    BY <1>9
  <2>2. Len(remote) \in Nat
    BY <1>5
  <2>3. Len(arguments') = PortAt - 1 + 2 + 1 + Len(remote)
    BY <1>8, <2>1
  <2>. QED  BY <1>10, <2>2, <2>3
<1>. HIDE DEF to
<1>17. /\ MayPool' = MayPool /\ PoolAt' = PoolAt /\ PortAt' = PortAt
       /\ Destination' = Destination /\ End' = End
       /\ CommandIsMissing' = CommandIsMissing
  BY <1>1 DEF MayPool, PoolAt, PortAt, Destination, End, CommandIsMissing
<1>. QED
  BY <1>1, <1>11, <1>12, <1>13, <1>14, <1>15, <1>16, <1>17 DEF Laid, to

-----------------------------------------------------------------------------
(* What the client reads.                                                  *)

\* The layout does not change while the client reads.
LEMMA LayoutRests ==
    ASSUME UNCHANGED <<mode, remote, pooling, controlPath, target, arguments>>
    PROVE  /\ Laid' <=> Laid
           /\ CommandIsMissing' <=> CommandIsMissing
           /\ LedByDash' <=> LedByDash
           /\ PoolAt' = PoolAt /\ PortAt' = PortAt /\ Destination' = Destination
           /\ End' = End /\ Stops' = Stops /\ (MayPool' <=> MayPool)
BY DEF Laid, CommandIsMissing, LedByDash, PoolAt, PortAt, Destination, End, Stops, MayPool

LEMMA Layout ==
    ASSUME SInv, pc \in Started
    PROVE  /\ Len(remote) \in Nat /\ remote \in Seq(Texts)
           /\ PoolAt \in {1, 4} /\ PortAt \in {PoolAt, PoolAt + 6}
           /\ mode = "captured" => PoolAt = 4
           /\ mode # "captured" => PoolAt = 1
           /\ MayPool => PortAt = PoolAt + 6
           /\ ~ MayPool => PortAt = PoolAt
           /\ Destination = PortAt + 2 /\ End = Destination + Len(remote) + 1
           /\ Len(arguments) + 1 = End
           /\ Stops \subseteq 1 .. End
<1>1. remote \in Seq(Texts) /\ Len(remote) \in Nat
  BY RemoteIs DEF SInv, TypeOK
<1>2. /\ PoolAt \in {1, 4} /\ PortAt \in {PoolAt, PoolAt + 6}
      /\ mode = "captured" => PoolAt = 4
      /\ mode # "captured" => PoolAt = 1
      /\ MayPool => PortAt = PoolAt + 6
      /\ ~ MayPool => PortAt = PoolAt
      /\ Destination = PortAt + 2 /\ End = Destination + Len(remote) + 1
  BY <1>1, Numbers
<1>3. Len(arguments) + 1 = End
  BY DEF SInv, Laid
<1>4. Stops \subseteq 1 .. End
  <2>. SUFFICES ASSUME NEW p \in Stops PROVE p \in 1 .. End
    OBVIOUS
  <2>1. CASE p \in {1, PoolAt, PortAt, Destination, Destination + 1, End}
    BY <1>1, <1>2, <2>1
  <2>2. CASE mode = "captured" /\ p = 2
    BY <1>1, <1>2, <2>2
  <2>3. CASE MayPool /\ p \in {PoolAt + 2, PoolAt + 4}
    BY <1>1, <1>2, <2>3
  <2>. QED  BY <2>1, <2>2, <2>3 DEF Stops
<1>. QED  BY <1>1, <1>2, <1>3, <1>4

\* What stands where the client stops.
LEMMA AtStop ==
    ASSUME SInv, pc = "reading", place <= Len(arguments), place \in Stops
    PROVE  \/ mode = "captured" /\ place = 1 /\ Argument = Word("-T")
           \/ /\ mode = "captured" /\ place = 2 /\ Argument = Word("-o")
              /\ arguments[place + 1] = Word("BatchMode=yes")
           \/ /\ MayPool /\ place = PoolAt /\ Argument = Word("-o")
              /\ arguments[place + 1] = Word("ControlMaster=auto")
           \/ /\ MayPool /\ place = PoolAt + 2 /\ Argument = Word("-o")
              /\ arguments[place + 1] = Word("ControlPersist=60s")
           \/ /\ MayPool /\ place = PoolAt + 4 /\ Argument = Word("-o")
              /\ arguments[place + 1] = Word("ControlPath")
           \/ /\ place = PortAt /\ Argument = Word("-p")
              /\ arguments[place + 1] = Word(target.port)
           \/ /\ place = Destination
              /\ Argument = [user |-> target.user, text |-> target.host]
           \/ /\ place = Destination + 1 /\ remote # <<>>
              /\ Argument = Word(Head(remote))
<1>1. Laid /\ place \in Stops
  BY DEF SInv, Started
<1>2. /\ Len(remote) \in Nat /\ remote \in Seq(Texts)
      /\ PoolAt \in {1, 4} /\ PortAt \in {PoolAt, PoolAt + 6}
      /\ mode = "captured" => PoolAt = 4
      /\ mode # "captured" => PoolAt = 1
      /\ MayPool => PortAt = PoolAt + 6
      /\ ~ MayPool => PortAt = PoolAt
      /\ Destination = PortAt + 2 /\ End = Destination + Len(remote) + 1
      /\ Len(arguments) + 1 = End
  BY Layout DEF Started
<1>3. CASE mode = "captured" /\ place \in {1, 2}
  BY <1>1, <1>3 DEF Laid, Argument
<1>4. CASE MayPool /\ place \in {PoolAt, PoolAt + 2, PoolAt + 4}
  <2>1. PoolAt + 2 + 1 = PoolAt + 3 /\ PoolAt + 4 + 1 = PoolAt + 5
    BY <1>2
  <2>. QED  BY <1>1, <1>4, <2>1 DEF Laid, Argument
<1>5. CASE place = PortAt
  BY <1>1, <1>5 DEF Laid, Argument
<1>6. CASE place = Destination
  BY <1>1, <1>6 DEF Laid, Argument
<1>7. CASE place = Destination + 1
  <2>1. Len(remote) >= 1
    BY <1>2, <1>7
  <2>2. remote # <<>>
    BY <2>1
  <2>3. 1 \in 1 .. Len(remote)
    BY <1>2, <2>1
  <2>4. Argument = Word(remote[1])
    BY <1>1, <1>7, <2>3 DEF Laid, Argument
  <2>5. remote[1] = Head(remote)
    BY <1>2, <2>2
  <2>. QED  BY <1>7, <2>2, <2>4, <2>5
<1>8. place # End
  BY <1>2
<1>9. CASE place = 1 /\ mode # "captured"
  <2>1. place = PoolAt
    BY <1>2, <1>9
  <2>. QED  BY <1>2, <1>4, <1>5, <2>1
<1>10. CASE place = PoolAt
  BY <1>2, <1>4, <1>5, <1>10
<1>. QED
  BY <1>1, <1>3, <1>4, <1>5, <1>6, <1>7, <1>8, <1>9, <1>10 DEF Stops

\* The options begin with a dash, the destination does not; the command may.
LEMMA Dashes ==
    ASSUME SInv, pc = "reading", place <= Len(arguments)
    PROVE  /\ ~ LedByDash => OwnRead /\ place <= Destination + 1
           /\ place <= Destination + 1 => OwnRead /\ place \in Stops
           /\ place < Destination =>
                 BeginsWithDash(Argument) /\ Argument \in {Word("-T"), Word("-o"), Word("-p")}
           /\ place = Destination => ~ BeginsWithDash(Argument)
           /\ place = Destination + 1 => (BeginsWithDash(Argument) <=> LedByDash)
<1>1. target \in SshTarget /\ remote \in RemoteCommands \cup {<<>>} /\ Read
  BY DEF SInv, Started, TypeOK
<1>2. /\ PoolAt \in {1, 4} /\ PortAt \in {PoolAt, PoolAt + 6}
      /\ mode = "captured" => PoolAt = 4
      /\ MayPool => PortAt = PoolAt + 6
      /\ Destination = PortAt + 2 /\ End = Destination + Len(remote) + 1
      /\ Len(arguments) + 1 = End /\ Len(remote) \in Nat
  BY Layout DEF Started
<1>3. place \in Nat /\ Len(arguments) \in Nat
  BY DEF SInv, TypeOK
<1>4. ~ BeginsWithDash([user |-> target.user, text |-> target.host])
  <2>1. target.user # "" /\ target.user # "dashed"
    BY <1>1 DEF SshTarget, BadUser, BadHost
  <2>. QED  BY <2>1 DEF BeginsWithDash
<1>5. remote # <<>> => (BeginsWithDash(Word(Head(remote))) <=> LedByDash)
  BY DEF BeginsWithDash, Word, LedByDash
<1>6. \A w \in {"-T", "-o", "-p"} : BeginsWithDash(Word(w))
  BY DEF BeginsWithDash, Word, Dashed, Alone, Valued
<1>7. place <= Destination + 1 => OwnRead /\ place \in Stops
  <2>1. place <= Destination + 1 => OwnRead
    BY <1>1, <1>2, <1>3 DEF Read, LedRead
  <2>. QED  BY <2>1 DEF OwnRead
<1>8. ~ LedByDash => OwnRead /\ place <= Destination + 1
  <2>. SUFFICES ASSUME ~ LedByDash PROVE OwnRead /\ place <= Destination + 1
    OBVIOUS
  <2>1. OwnRead /\ place \in Stops
    BY <1>1 DEF Read, OwnRead, LedRead
  <2>2. place # End
    BY <1>2, <1>3
  <2>3. CASE mode = "captured" /\ place = 2
    BY <1>2, <2>1, <2>3
  <2>4. CASE MayPool /\ place \in {PoolAt + 2, PoolAt + 4}
    BY <1>2, <2>1, <2>4
  <2>5. CASE place \in {1, PoolAt, PortAt, Destination, Destination + 1, End}
    BY <1>2, <2>1, <2>2, <2>5
  <2>. QED  BY <2>1, <2>3, <2>4, <2>5 DEF Stops
<1>9. CASE place = Destination + 1
  <2>1. remote # <<>> /\ Argument = Word(Head(remote))
    BY <1>2, <1>7, <1>9, AtStop
  <2>. QED  BY <1>1, <1>2, <1>5, <1>7, <1>8, <1>9, <2>1 DEF Read
<1>10. CASE place = Destination
  <2>1. Argument = [user |-> target.user, text |-> target.host]
    BY <1>2, <1>7, <1>10, AtStop
  <2>. QED  BY <1>1, <1>2, <1>4, <1>7, <1>8, <1>10, <2>1 DEF Read
<1>11. CASE place < Destination
  <2>1. place <= Destination + 1 /\ place # Destination /\ place # Destination + 1
    BY <1>2, <1>3, <1>11
  <2>2. Argument \in {Word("-T"), Word("-o"), Word("-p")}
    BY <1>7, <2>1, AtStop
  <2>. QED  BY <1>1, <1>6, <1>7, <1>8, <2>1, <2>2 DEF Read
<1>12. CASE place > Destination + 1
  <2>1. ~ (place < Destination) /\ place # Destination /\ place # Destination + 1
        /\ ~ (place <= Destination + 1)
    BY <1>2, <1>3, <1>12
  <2>. QED  BY <1>1, <1>8, <2>1 DEF Read
<1>. QED  BY <1>2, <1>3, <1>9, <1>10, <1>11, <1>12

\* A step of the client.
LEMMA ReadKeeps ==
    ASSUME SInv, pc = "reading", Read', place' \in 1 .. Len(arguments) + 1,
           UNCHANGED <<asked, target, warned, pc, arguments, reached, pool>>
    PROVE  SInv'
<1>1. UNCHANGED <<mode, remote, pooling, controlPath, target, arguments>>
  BY DEF asked
<1>2. Laid' /\ ~ CommandIsMissing' /\ target' \in SshTarget
  BY <1>1, LayoutRests DEF SInv, Started
<1>3. place' \in 1 .. Len(arguments') + 1
  BY <1>1
<1>4. TypeOK'
  BY <1>3 DEF SInv, TypeOK, asked, pool
<1>. QED  BY <1>2, <1>4 DEF SInv, SocketsFit, Started, pool

LEMMA PlaceIs == SInv => place \in Nat
BY DEF SInv, TypeOK

\* The fields that a step of the client changes, and those it does not.
LEMMA FieldsAfter ==
    ASSUME Fields
    PROVE  /\ \A x : client' = [client EXCEPT !.options = @ \cup {x}] =>
                 /\ Fields' /\ client'.options = client.options \cup {x}
                 /\ client'.port = client.port /\ client'.user = client.user
                 /\ client'.host = client.host /\ client'.command = client.command
                 /\ client'.ended = client.ended
           /\ \A x : client' = [client EXCEPT !.port = x] =>
                 /\ Fields' /\ client'.port = x /\ client'.options = client.options
                 /\ client'.user = client.user /\ client'.host = client.host
                 /\ client'.command = client.command /\ client'.ended = client.ended
           /\ \A x : client' = [client EXCEPT !.user = x] =>
                 /\ Fields' /\ client'.user = x /\ client'.options = client.options
                 /\ client'.port = client.port /\ client'.host = client.host
                 /\ client'.command = client.command /\ client'.ended = client.ended
           /\ \A x, y : client' = [client EXCEPT !.user = x, !.host = y] =>
                 /\ Fields' /\ client'.user = x /\ client'.host = y
                 /\ client'.options = client.options /\ client'.port = client.port
                 /\ client'.command = client.command /\ client'.ended = client.ended
           /\ \A x : client' = [client EXCEPT !.command = x] =>
                 /\ Fields' /\ client'.command = x /\ client'.options = client.options
                 /\ client'.port = client.port /\ client'.user = client.user
                 /\ client'.host = client.host /\ client'.ended = client.ended
           /\ client' = [client EXCEPT !.ended = TRUE] =>
                 /\ Fields' /\ client'.options = client.options
                 /\ client'.port = client.port /\ client'.user = client.user
                 /\ client'.host = client.host
BY DEF Fields

\* What is read as an option behind the destination belongs to a command that a
\* dash leads.
LEMMA OptionIsLed ==
    ASSUME SInv, AtOption, ~ (place < Destination)
    PROVE  place > Destination /\ LedByDash
<1>1. pc = "reading" /\ place <= Len(arguments) /\ BeginsWithDash(Argument)
  BY DEF AtOption
<1>2. place \in Nat /\ Destination \in Nat
  BY <1>1, PlaceIs, Layout DEF Started
<1>3. place # Destination
  BY <1>1, Dashes
<1>4. CASE place = Destination + 1
  BY <1>1, <1>2, <1>4, Dashes
<1>5. CASE place > Destination + 1
  BY <1>1, <1>2, <1>5, Dashes
<1>. QED  BY <1>2, <1>3, <1>4, <1>5

\* A word is the destination or belongs to the command.
LEMMA WordIsBehind ==
    ASSUME SInv, AtWord
    PROVE  /\ place = Destination \/ place > Destination
           /\ place > Destination /\ ~ LedByDash => place = Destination + 1
<1>1. pc = "reading" /\ place <= Len(arguments)
      /\ (client.ended \/ ~ BeginsWithDash(Argument))
  BY DEF AtWord
<1>2. place \in Nat /\ Destination \in Nat
  BY <1>1, PlaceIs, Layout DEF Started
<1>3. ~ (place < Destination)
  <2>. SUFFICES ASSUME place < Destination PROVE FALSE
    OBVIOUS
  <2>1. place <= Destination + 1
    BY <1>2
  <2>2. BeginsWithDash(Argument) /\ OwnRead
    BY <1>1, <2>1, Dashes
  <2>. QED  BY <1>1, <2>2 DEF OwnRead
<1>4. place > Destination /\ ~ LedByDash => place = Destination + 1
  <2>1. ~ LedByDash => place <= Destination + 1
    BY <1>1, Dashes
  <2>. QED  BY <1>2, <2>1
<1>. QED  BY <1>2, <1>3, <1>4

\* Behind the destination the client knows the target, and keeps it.
LEMMA LaterRead ==
    ASSUME SInv, pc = "reading", LedByDash, place > Destination,
           place' > place, place' \in 1 .. Len(arguments) + 1,
           Fields', client'.user = client.user, client'.host = client.host,
           client'.port = client.port, client.options \subseteq client'.options,
           UNCHANGED <<asked, target, warned, pc, arguments, reached, pool>>
    PROVE  SInv'
<1>1. /\ mode' = mode /\ target' = target /\ Destination' = Destination
      /\ (LedByDash' <=> LedByDash)
  BY LayoutRests DEF asked
<1>2. /\ place \in Nat /\ place' \in Nat /\ PortAt \in Nat /\ PoolAt \in Nat
      /\ Destination = PortAt + 2 /\ PortAt >= PoolAt
  <2>1. place \in Nat /\ Len(arguments) \in Nat
    BY PlaceIs DEF SInv
  <2>2. /\ PoolAt \in {1, 4} /\ PortAt \in {PoolAt, PoolAt + 6}
        /\ Destination = PortAt + 2
    BY Layout DEF Started
  <2>. QED  BY <2>1, <2>2
<1>3. place' > Destination + 1 /\ place > PortAt /\ place >= PoolAt
  BY <1>2
<1>4. /\ client.user = target.user /\ client.host = target.host
      /\ client.port = target.port
      /\ mode = "captured" => "BatchMode=yes" \in client.options
  BY <1>3 DEF SInv, Read, OwnRead, LedRead
<1>5. LedRead'
  BY <1>1, <1>3, <1>4 DEF LedRead
<1>. QED  BY <1>5, ReadKeeps DEF Read

\* One more option of hb's own; the one that matters is "BatchMode=yes".
LEMMA OptionRead ==
    ASSUME SInv, pc = "reading", NEW x, x # "HostName",
           client' = [client EXCEPT !.options = @ \cup {x}],
           UNCHANGED <<asked, target, warned, pc, arguments, reached, pool>>,
           place' \in Stops, place < PortAt, place' <= PortAt, place' > place,
           x = "BatchMode=yes" <=> place < PoolAt /\ place' >= PoolAt
    PROVE  SInv'
<1>1. Read /\ place \in Nat /\ place' \in Nat /\ place' \in 1 .. Len(arguments) + 1
  <2>1. Read /\ place \in Nat
    BY PlaceIs DEF SInv
  <2>2. place' \in 1 .. End /\ End \in Nat /\ Len(arguments) + 1 = End
    BY Layout DEF Started
  <2>. QED  BY <2>1, <2>2
<1>2. /\ PoolAt \in {1, 4} /\ PortAt \in {PoolAt, PoolAt + 6}
      /\ mode = "captured" => PoolAt = 4
      /\ mode # "captured" => PoolAt = 1
      /\ MayPool => PortAt = PoolAt + 6
      /\ ~ MayPool => PortAt = PoolAt
      /\ Destination = PortAt + 2
  BY Layout DEF Started
<1>3. /\ mode' = mode /\ remote' = remote /\ target' = target
      /\ PoolAt' = PoolAt /\ PortAt' = PortAt /\ Destination' = Destination
      /\ Stops' = Stops /\ (MayPool' <=> MayPool)
  BY LayoutRests DEF asked
<1>4. /\ Fields' /\ client'.options = client.options \cup {x}
      /\ client'.host = client.host /\ client'.command = client.command
      /\ client'.port = client.port /\ client'.user = client.user
      /\ client'.ended = client.ended
  BY <1>1, FieldsAfter DEF Read
<1>5. /\ ~ (place' > PortAt) /\ place' <= Destination /\ ~ (place' > Destination)
      /\ place' <= Destination + 1 /\ ~ (place' > Destination + 1)
      /\ place <= Destination /\ place <= Destination + 1 /\ place <= PortAt
      /\ ~ (place > Destination + 1)
  BY <1>1, <1>2
<1>6. OwnRead
  BY <1>1, <1>5 DEF Read, LedRead
<1>7. "BatchMode=yes" \in client'.options <=> mode = "captured" /\ place' >= PoolAt
  <2>1. "BatchMode=yes" \in client.options <=> mode = "captured" /\ place >= PoolAt
    BY <1>6 DEF OwnRead
  <2>2. mode # "captured" => place >= PoolAt
    <3>1. place >= 1
      BY DEF SInv, TypeOK
    <3>. QED  BY <1>1, <1>2, <3>1
  <2>3. "BatchMode=yes" \in client'.options
           <=> "BatchMode=yes" \in client.options \/ x = "BatchMode=yes"
    BY <1>4
  <2>. QED  BY <1>1, <1>2, <2>1, <2>2, <2>3
<1>8. "HostName" \notin client'.options
  BY <1>4, <1>6 DEF OwnRead
<1>9. OwnRead'
  BY <1>3, <1>4, <1>5, <1>6, <1>7, <1>8 DEF OwnRead
<1>. QED  BY <1>1, <1>4, <1>9, ReadKeeps DEF Read

LEMMA WordsDiffer ==
    /\ Word("-T") # Word("-o") /\ Word("-T") # Word("-p") /\ Word("-o") # Word("-p")
    /\ \A t : Word(t).text = t
BY DEF Word

\* What it knows with one more option, the port, the destination or the command.
LEMMA AloneKeeps == SInv /\ ReadAlone => SInv'
<1>. SUFFICES ASSUME SInv, ReadAlone PROVE SInv'
  OBVIOUS
<1>1. /\ AtOption /\ pc = "reading" /\ place <= Len(arguments)
      /\ client' = [client EXCEPT !.options = @ \union {Argument.text}]
      /\ place' = place + 1
      /\ UNCHANGED <<asked, target, warned, pc, arguments, reached, pool>>
  BY DEF ReadAlone, AtOption
<1>2. place \in Nat /\ Len(arguments) \in Nat /\ Read
  BY <1>1, PlaceIs DEF SInv
<1>3. /\ PoolAt \in {1, 4} /\ PortAt \in {PoolAt, PoolAt + 6}
      /\ mode = "captured" => PoolAt = 4
      /\ Destination = PortAt + 2
  BY <1>1, Layout DEF Started
<1>4. CASE place < Destination
  <2>1. place <= Destination + 1 /\ place # Destination /\ place # Destination + 1
    BY <1>2, <1>3, <1>4
  <2>2. Argument \in {Word("-T"), Word("-o"), Word("-p")} /\ place \in Stops
    BY <1>1, <1>4, <2>1, Dashes
  <2>3. Argument = Word("-T")
    BY <2>2, WordsDiffer DEF ReadAlone, Alone
  <2>4. mode = "captured" /\ place = 1
    BY <1>1, <2>1, <2>2, <2>3, AtStop, WordsDiffer
  <2>5. client' = [client EXCEPT !.options = @ \union {"-T"}] /\ place' = 2
    <3>1. Argument.text = "-T"
      BY <2>3, WordsDiffer
    <3>2. place' = 2
      BY <1>1, <2>4
    <3>. QED  BY <1>1, <3>1, <3>2
  <2>6. place' \in Stops
    BY <2>4, <2>5 DEF Stops
  <2>7. /\ place < PortAt /\ place' <= PortAt /\ place' > place
        /\ ~ (place < PoolAt /\ place' >= PoolAt)
    BY <1>3, <2>4, <2>5
  <2>8. "-T" = "BatchMode=yes" <=> place < PoolAt /\ place' >= PoolAt
    BY <2>7
  <2>. QED  BY <1>1, <2>5, <2>6, <2>7, <2>8, OptionRead
<1>5. CASE ~ (place < Destination)
  <2>1. place > Destination /\ LedByDash
    BY <1>1, <1>5, OptionIsLed
  <2>2. /\ Fields' /\ client.options \subseteq client'.options
        /\ client'.user = client.user /\ client'.host = client.host
        /\ client'.port = client.port
    BY <1>1, <1>2, FieldsAfter DEF Read
  <2>3. place' > place /\ place' \in 1 .. Len(arguments) + 1
    BY <1>1, <1>2
  <2>. QED  BY <1>1, <2>1, <2>2, <2>3, LaterRead
<1>. QED  BY <1>4, <1>5

\* The options that hb gives a value.
LEMMA OwnValues ==
    ASSUME SInv, AtOption, place < Destination
    PROVE  /\ Argument \in {Word("-T"), Word("-o"), Word("-p")}
           /\ Argument = Word("-o") =>
                 \/ mode = "captured" /\ place = 2 /\ arguments[place + 1] = Word("BatchMode=yes")
                 \/ MayPool /\ place = PoolAt /\ arguments[place + 1] = Word("ControlMaster=auto")
                 \/ /\ MayPool /\ place = PoolAt + 2
                    /\ arguments[place + 1] = Word("ControlPersist=60s")
                 \/ MayPool /\ place = PoolAt + 4 /\ arguments[place + 1] = Word("ControlPath")
           /\ Argument = Word("-p") =>
                 place = PortAt /\ arguments[place + 1] = Word(target.port)
           /\ Argument # Word("-T") => place < Len(arguments)
<1>1. pc = "reading" /\ place <= Len(arguments)
  BY DEF AtOption
<1>2. /\ place \in Nat /\ Len(remote) \in Nat /\ Len(arguments) + 1 = End
      /\ PoolAt \in {1, 4} /\ PortAt \in {PoolAt, PoolAt + 6}
      /\ Destination = PortAt + 2 /\ End = Destination + Len(remote) + 1
  BY <1>1, PlaceIs, Layout DEF Started
<1>3. place <= Destination + 1 /\ place # Destination /\ place # Destination + 1
  BY <1>2
<1>4. Argument \in {Word("-T"), Word("-o"), Word("-p")} /\ place \in Stops
  BY <1>1, <1>3, Dashes
<1>5. place < Len(arguments)
  <2>1. Len(arguments) \in Nat
    BY DEF SInv
  <2>. QED  BY <1>2, <2>1
<1>. QED  BY <1>1, <1>3, <1>4, <1>5, AtStop, WordsDiffer

LEMMA SettingKeeps ==
    ASSUME SInv, ReadValued, place < Destination, Argument = Word("-o")
    PROVE  SInv'
<1>1. /\ AtOption /\ pc = "reading" /\ place' = place + 2
      /\ client' = [client EXCEPT !.options = @ \union {arguments[place + 1].text}]
      /\ UNCHANGED <<asked, target, warned, pc, arguments, reached, pool>>
  <2>1. Word("-o") # Word("-p") /\ Word("-o") # Word("-l")
    BY DEF Word
  <2>. QED  BY <2>1 DEF ReadValued, AtOption
<1>2. /\ PoolAt \in {1, 4} /\ PortAt \in {PoolAt, PoolAt + 6}
      /\ mode = "captured" => PoolAt = 4
      /\ MayPool => PortAt = PoolAt + 6
  BY <1>1, Layout DEF Started
<1>3. \A x : arguments[place + 1] = Word(x) =>
              client' = [client EXCEPT !.options = @ \union {x}]
  BY <1>1, WordsDiffer
<1>4. CASE mode = "captured" /\ place = 2 /\ arguments[place + 1] = Word("BatchMode=yes")
  <2>1. client' = [client EXCEPT !.options = @ \union {"BatchMode=yes"}]
    BY <1>3, <1>4
  <2>2. place' = 4 /\ place' \in Stops
    BY <1>1, <1>2, <1>4 DEF Stops
  <2>3. "BatchMode=yes" = "BatchMode=yes" <=> place < PoolAt /\ place' >= PoolAt
    BY <1>2, <1>4, <2>2
  <2>. QED  BY <1>1, <1>2, <1>4, <2>1, <2>2, <2>3, OptionRead
<1>5. ASSUME NEW x \in {"ControlMaster=auto", "ControlPersist=60s", "ControlPath"},
             arguments[place + 1] = Word(x), MayPool,
             place \in {PoolAt, PoolAt + 2, PoolAt + 4}
      PROVE  SInv'
  <2>1. client' = [client EXCEPT !.options = @ \union {x}]
    BY <1>3, <1>5
  <2>2. place' \in {PoolAt + 2, PoolAt + 4, PortAt}
    BY <1>1, <1>2, <1>5
  <2>3. place' \in Stops
    BY <1>5, <2>2 DEF Stops
  <2>4. /\ place < PortAt /\ place' <= PortAt /\ place' > place
        /\ ~ (place < PoolAt /\ place' >= PoolAt)
    BY <1>1, <1>2, <1>5
  <2>5. x # "HostName" /\ (x = "BatchMode=yes" <=> place < PoolAt /\ place' >= PoolAt)
    BY <1>5, <2>4
  <2>. QED  BY <1>1, <2>1, <2>3, <2>4, <2>5, OptionRead
<1>. QED  BY <1>1, <1>4, <1>5, OwnValues

LEMMA PortKeeps ==
    ASSUME SInv, ReadValued, place < Destination, Argument = Word("-p")
    PROVE  SInv'
<1>1. /\ AtOption /\ pc = "reading" /\ place' = place + 2 /\ place < Len(arguments)
      /\ client' = [client EXCEPT !.port = Known(@, arguments[place + 1].text)]
      /\ UNCHANGED <<asked, target, warned, pc, arguments, reached, pool>>
  <2>1. Word("-p") # Word("-o") /\ Word("-p") # Word("-l")
    BY DEF Word
  <2>. QED  BY <2>1 DEF ReadValued, AtOption
<1>2. /\ PoolAt \in {1, 4} /\ PortAt \in {PoolAt, PoolAt + 6}
      /\ Destination = PortAt + 2
  BY <1>1, Layout DEF Started
<1>3. place = PortAt /\ arguments[place + 1] = Word(target.port)
  BY <1>1, OwnValues
<1>4. Read /\ OwnRead
  <2>1. place <= Destination + 1
    BY <1>2, <1>3
  <2>2. place <= Len(arguments)
    BY <1>1 DEF AtOption
  <2>. QED  BY <1>1, <2>1, <2>2, Dashes DEF SInv
<1>5. client' = [client EXCEPT !.port = target.port]
  <2>1. place <= PortAt
    BY <1>2, <1>3
  <2>2. client.port = ""
    BY <1>4, <2>1 DEF OwnRead
  <2>3. arguments[place + 1].text = target.port
    BY <1>3, WordsDiffer
  <2>. QED  BY <1>1, <2>2, <2>3 DEF Known
<1>6. /\ Fields' /\ client'.port = target.port /\ client'.options = client.options
      /\ client'.user = client.user /\ client'.host = client.host
      /\ client'.command = client.command /\ client'.ended = client.ended
  BY <1>4, <1>5, FieldsAfter DEF Read
<1>7. /\ mode' = mode /\ remote' = remote /\ target' = target
      /\ PoolAt' = PoolAt /\ PortAt' = PortAt /\ Destination' = Destination
      /\ Stops' = Stops
  BY <1>1, LayoutRests DEF asked
<1>8. place' = Destination /\ place' \in Stops
  BY <1>1, <1>2, <1>3 DEF Stops
<1>9. /\ ~ (place' > Destination) /\ ~ (place' > Destination + 1)
      /\ ~ (place' <= PortAt) /\ place <= Destination /\ place <= Destination + 1
      /\ place >= PoolAt /\ place' >= PoolAt
  BY <1>2, <1>3, <1>8
<1>10. OwnRead'
  BY <1>4, <1>6, <1>7, <1>8, <1>9 DEF OwnRead
<1>11. place' \in 1 .. Len(arguments) + 1
  <2>1. place \in Nat /\ Len(arguments) \in Nat
    BY PlaceIs DEF SInv
  <2>. QED  BY <1>1, <2>1
<1>. QED  BY <1>1, <1>6, <1>10, <1>11, ReadKeeps DEF Read

LEMMA ValuedKeeps == SInv /\ ReadValued => SInv'
<1>. SUFFICES ASSUME SInv, ReadValued PROVE SInv'
  OBVIOUS
<1>1. /\ AtOption /\ pc = "reading" /\ place' = place + 2 /\ place < Len(arguments)
      /\ UNCHANGED <<asked, target, warned, pc, arguments, reached, pool>>
  BY DEF ReadValued, AtOption
<1>2. place \in Nat /\ Len(arguments) \in Nat /\ Read /\ target \in SshTarget
  BY <1>1, PlaceIs DEF SInv, Started
<1>3. CASE place < Destination
  <2>1. Word("-T") # Word("-o") /\ Word("-T") # Word("-p") /\ Word("-T") # Word("-l")
    BY DEF Word
  <2>2. Argument # Word("-T")
    BY <2>1 DEF ReadValued
  <2>3. Argument \in {Word("-o"), Word("-p")}
    BY <1>1, <1>3, <2>2, OwnValues
  <2>. QED  BY <1>3, <2>3, SettingKeeps, PortKeeps
<1>4. CASE ~ (place < Destination)
  <2>1. place > Destination /\ LedByDash
    BY <1>1, <1>4, OptionIsLed
  <2>2. place' > place /\ place' \in 1 .. Len(arguments) + 1
    BY <1>1, <1>2
  <2>3. client.user = target.user /\ client.port = target.port
    <3>1. place > PortAt
      <4>1. /\ PoolAt \in {1, 4} /\ PortAt \in {PoolAt, PoolAt + 6}
            /\ Destination = PortAt + 2
        BY <1>1, Layout DEF Started
      <4>. QED  BY <1>2, <2>1, <4>1
    <3>. QED  BY <1>2, <2>1, <3>1 DEF Read, OwnRead, LedRead
  <2>4. client.user # "" /\ client.port # ""
    BY <1>2, <2>3 DEF SshTarget, BadUser, BadHost, BadPort
  <2>5. \E x : \/ client' = [client EXCEPT !.options = @ \cup {x}]
               \/ client' = [client EXCEPT !.port = client.port]
               \/ client' = [client EXCEPT !.user = client.user]
    BY <2>4 DEF ReadValued, Known
  <2>6. /\ Fields' /\ client.options \subseteq client'.options
        /\ client'.user = client.user /\ client'.host = client.host
        /\ client'.port = client.port
    BY <1>2, <2>5, FieldsAfter DEF Read
  <2>. QED  BY <1>1, <2>1, <2>2, <2>6, LaterRead
<1>. QED  BY <1>3, <1>4

LEMMA EndKeeps == SInv /\ ReadEnd => SInv'
<1>. SUFFICES ASSUME SInv, ReadEnd PROVE SInv'
  OBVIOUS
<1>1. /\ AtOption /\ pc = "reading" /\ place <= Len(arguments) /\ place' = place + 1
      /\ client' = [client EXCEPT !.ended = TRUE]
      /\ UNCHANGED <<asked, target, warned, pc, arguments, reached, pool>>
  BY DEF ReadEnd, AtOption
<1>2. place \in Nat /\ Len(arguments) \in Nat /\ Read
  BY <1>1, PlaceIs DEF SInv
<1>3. ~ (place < Destination)
  <2>1. \A w \in {"-T", "-o", "-p"} : Word("--") # Word(w)
    BY DEF Word
  <2>. QED  BY <1>1, <2>1, OwnValues DEF ReadEnd
<1>4. place > Destination /\ LedByDash
  BY <1>1, <1>3, OptionIsLed
<1>5. /\ Fields' /\ client'.options = client.options
      /\ client'.user = client.user /\ client'.host = client.host
      /\ client'.port = client.port
  BY <1>1, <1>2, FieldsAfter DEF Read
<1>6. place' > place /\ place' \in 1 .. Len(arguments) + 1
  BY <1>1, <1>2
<1>. QED  BY <1>1, <1>4, <1>5, <1>6, LaterRead

\* The client understands what hb itself writes.
LEMMA RefuseKeeps == SInv /\ Refuse => SInv'
<1>. SUFFICES ASSUME SInv, Refuse PROVE SInv'
  OBVIOUS
<1>1. /\ AtOption /\ pc = "reading" /\ place <= Len(arguments) /\ pc' = "refused"
      /\ UNCHANGED <<asked, target, warned, arguments, reading, reached, pool>>
  BY DEF Refuse, AtOption
<1>2. ~ (place < Destination)
  <2>. SUFFICES ASSUME place < Destination PROVE FALSE
    OBVIOUS
  <2>1. Argument \in {Word("-T"), Word("-o"), Word("-p")}
    BY <1>1, OwnValues
  <2>2. Argument \in {Word(text) : text \in Alone \cup Valued \cup {"--"}}
    BY <2>1 DEF Alone, Valued
  <2>3. \A text \in Valued : Word("-T") # Word(text)
    BY DEF Word, Valued
  <2>4. ~ (Argument \in {Word(text) : text \in Valued} /\ place = Len(arguments))
    <3>1. place < Len(arguments) => place # Len(arguments)
      <4>1. place \in Nat /\ Len(arguments) \in Nat
        BY PlaceIs DEF SInv
      <4>. QED  BY <4>1
    <3>. QED  BY <1>1, <2>3, <3>1, OwnValues
  <2>5. Argument = Word("-o") => arguments[place + 1].text \in Settings
    BY <1>1, OwnValues, WordsDiffer DEF Settings
  <2>. QED  BY <2>2, <2>4, <2>5 DEF Refuse
<1>3. LedByDash
  BY <1>1, <1>2, OptionIsLed
<1>4. LedByDash'
  BY <1>1, <1>3 DEF LedByDash, asked
<1>5. TypeOK'
  BY <1>1 DEF SInv, TypeOK, asked, reading, pool
<1>. QED  BY <1>1, <1>4, <1>5 DEF SInv, SocketsFit, Started, reading, pool

LEMMA DestinationKeeps == SInv /\ ReadDestination => SInv'
<1>. SUFFICES ASSUME SInv, ReadDestination PROVE SInv'
  OBVIOUS
<1>1. /\ AtWord /\ pc = "reading" /\ place <= Len(arguments) /\ client.host = ""
      /\ client' = [client EXCEPT !.user = Known(@, Argument.user), !.host = Argument.text]
      /\ place' = place + 1
      /\ UNCHANGED <<asked, target, warned, pc, arguments, reached, pool>>
  BY DEF ReadDestination, AtWord
<1>2. /\ PoolAt \in {1, 4} /\ PortAt \in {PoolAt, PoolAt + 6}
      /\ Destination = PortAt + 2
  BY <1>1, Layout DEF Started
<1>3. Read /\ place \in Nat /\ Len(arguments) \in Nat
  BY <1>1, PlaceIs DEF SInv
<1>4. target.host # ""
  BY <1>1 DEF SInv, Started, SshTarget, BadHost
<1>5. place = Destination
  <2>1. ~ (place > Destination)
    BY <1>1, <1>3, <1>4 DEF Read, OwnRead, LedRead
  <2>. QED  BY <1>1, <2>1, WordIsBehind
<1>6. Argument = [user |-> target.user, text |-> target.host]
  BY <1>1, <1>5 DEF SInv, Started, Laid, Argument
<1>7. /\ mode' = mode /\ remote' = remote /\ target' = target
      /\ PoolAt' = PoolAt /\ PortAt' = PortAt /\ Destination' = Destination
      /\ Stops' = Stops
  BY <1>1, LayoutRests DEF asked
<1>8. OwnRead /\ client.user = ""
  <2>1. place <= Destination + 1 /\ place <= Destination
    BY <1>2, <1>5
  <2>2. OwnRead
    BY <1>1, <2>1, Dashes
  <2>. QED  BY <2>1, <2>2 DEF OwnRead
<1>9. OwnRead' /\ Fields'
  <2>1. client' = [client EXCEPT !.user = target.user, !.host = target.host]
    BY <1>1, <1>6, <1>8 DEF Known
  <2>2. place' = Destination + 1 /\ Destination + 1 \in Stops
    BY <1>1, <1>5 DEF Stops
  <2>3. /\ Fields' /\ client'.user = target.user /\ client'.host = target.host
        /\ client'.options = client.options /\ client'.port = client.port
        /\ client'.command = client.command /\ client'.ended = client.ended
    BY <1>3, <2>1, FieldsAfter DEF Read
  <2>4. /\ place > PortAt /\ place <= Destination + 1 /\ ~ (place' <= PortAt)
        /\ ~ (place' <= Destination) /\ ~ (place' > Destination + 1)
        /\ place >= PoolAt /\ place' >= PoolAt
    BY <1>2, <1>5, <2>2
  <2>. QED  BY <1>7, <1>8, <2>2, <2>3, <2>4 DEF OwnRead
<1>10. place' \in 1 .. Len(arguments) + 1
  <2>1. place' = place + 1 /\ place <= Len(arguments)
    BY <1>1
  <2>. QED  BY <1>3, <2>1
<1>. QED  BY <1>1, <1>9, <1>10, ReadKeeps DEF Read

LEMMA CommandKeeps == SInv /\ ReadCommand => SInv'
<1>. SUFFICES ASSUME SInv, ReadCommand PROVE SInv'
  OBVIOUS
<1>1. /\ AtWord /\ pc = "reading" /\ place <= Len(arguments) /\ client.host # ""
      /\ client' = [client EXCEPT !.command =
                      [i \in 1..(Len(arguments) - place + 1) |->
                         arguments[place + i - 1].text]]
      /\ place' = Len(arguments) + 1
      /\ UNCHANGED <<asked, target, warned, pc, arguments, reached, pool>>
  BY DEF ReadCommand, AtWord
<1>2. /\ Len(remote) \in Nat /\ remote \in Seq(Texts)
      /\ PoolAt \in {1, 4} /\ PortAt \in {PoolAt, PoolAt + 6}
      /\ Destination = PortAt + 2 /\ End = Destination + Len(remote) + 1
      /\ Len(arguments) + 1 = End
  BY <1>1, Layout DEF Started
<1>3. Read /\ place \in Nat /\ Len(arguments) \in Nat
  BY <1>1, PlaceIs DEF SInv
<1>4. /\ Fields' /\ client'.options = client.options
      /\ client'.port = client.port /\ client'.user = client.user
      /\ client'.host = client.host /\ client'.ended = client.ended
      /\ \A x : client' = [client EXCEPT !.command = x] => client'.command = x
  BY <1>1, <1>3, FieldsAfter DEF Read
<1>5. place > Destination
  <2>1. place # Destination
    <3>. SUFFICES ASSUME place = Destination PROVE FALSE
      OBVIOUS
    <3>1. place <= Destination + 1 /\ place <= Destination
      BY <1>2
    <3>2. OwnRead
      BY <1>1, <3>1, Dashes
    <3>. QED  BY <1>1, <3>1, <3>2 DEF OwnRead
  <2>. QED  BY <1>1, <2>1, WordIsBehind
<1>6. place' \in 1 .. Len(arguments) + 1 /\ place' > place
  <2>1. place' = Len(arguments) + 1 /\ place <= Len(arguments)
    BY <1>1
  <2>. QED  BY <1>3, <2>1
<1>7. CASE LedByDash
  BY <1>1, <1>4, <1>5, <1>6, <1>7, LaterRead
<1>8. CASE ~ LedByDash
  <2>1. place = Destination + 1 /\ OwnRead
    BY <1>1, <1>5, <1>8, WordIsBehind, Dashes
  <2>2. [i \in 1..(Len(arguments) - place + 1) |-> arguments[place + i - 1].text] = remote
    <3>1. Len(arguments) - place + 1 = Len(remote)
      BY <1>2, <2>1
    <3>2. ASSUME NEW i \in 1 .. Len(remote)
          PROVE  arguments[place + i - 1].text = remote[i]
      <4>1. place + i - 1 = Destination + i
        BY <1>2, <2>1
      <4>2. Laid
        BY <1>1 DEF SInv, Started
      <4>3. arguments[Destination + i] = Word(remote[i])
        BY <4>2 DEF Laid
      <4>4. arguments[place + i - 1] = Word(remote[i])
        BY <4>1, <4>3
      <4>. QED  BY <4>4, WordsDiffer
    <3>3. remote = [i \in 1 .. Len(remote) |-> remote[i]]
      BY <1>2
    <3>. QED  BY <3>1, <3>2, <3>3
  <2>3. client'.command = remote
    BY <1>1, <1>4, <2>2
  <2>4. /\ mode' = mode /\ remote' = remote /\ target' = target
        /\ PoolAt' = PoolAt /\ PortAt' = PortAt /\ Destination' = Destination
        /\ Stops' = Stops
    BY <1>1, LayoutRests DEF asked
  <2>5. place' = End /\ End \in Stops
    BY <1>1, <1>2 DEF Stops
  <2>6. End > Destination + 1
    BY <1>2, <1>3, <1>6, <2>1, <2>5
  <2>7. /\ place > PortAt /\ place > Destination /\ ~ (place' <= PortAt)
        /\ ~ (place' <= Destination) /\ ~ (place' <= Destination + 1)
        /\ place >= PoolAt /\ place' >= PoolAt
    BY <1>2, <2>1, <2>5, <2>6
  <2>8. OwnRead'
    BY <1>4, <2>1, <2>3, <2>4, <2>5, <2>7 DEF OwnRead
  <2>. QED  BY <1>1, <1>4, <1>6, <2>8, ReadKeeps DEF Read
<1>. QED  BY <1>7, <1>8

-----------------------------------------------------------------------------
(* The other steps.                                                        *)

LEMMA Initially == Init => SInv
<1>. SUFFICES ASSUME Init PROVE SInv
  OBVIOUS
<1>1. Len(arguments) = 0 /\ place \in 1 .. Len(arguments) + 1
  BY DEF Init
<1>2. TypeOK
  <2>1. sessions \in 0 .. MaxSessions
    BY SessionAssumption DEF Init
  <2>2. /\ mode \in {"open", "inherited", "captured"} /\ remote = <<>>
        /\ pooling = FALSE /\ controlPath = FALSE /\ terminal = FALSE
        /\ warned = FALSE /\ pc = "idle" /\ target = Nowhere
    BY DEF Init
  <2>3. {pooling, controlPath, terminal, warned} \subseteq BOOLEAN
    BY <2>2
  <2>. QED  BY <1>1, <2>1, <2>2, <2>3 DEF TypeOK
<1>3. SocketsFit
  BY DEF Init, SocketsFit
<1>. QED  BY <1>1, <1>2, <1>3 DEF Init, SInv, Started

LEMMA AskKeeps == SInv /\ Ask => SInv'
<1>. SUFFICES ASSUME SInv, Ask PROVE SInv'
  OBVIOUS
<1>1. /\ sessions' = sessions + 1 /\ sessions < MaxSessions
      /\ mode' \in {"open", "inherited", "captured"}
      /\ pooling' \in BOOLEAN /\ controlPath' \in BOOLEAN
      /\ target' = Nowhere /\ warned' = FALSE /\ pc' = "check"
      /\ arguments' = <<>> /\ place' = 1 /\ client' = Unread
      /\ UNCHANGED sockets
  BY DEF Ask
<1>2. remote' \in RemoteCommands \cup {<<>>}
  BY DEF Ask
<1>3. terminal' \in BOOLEAN
  BY DEF Ask
<1>4. Len(arguments') \in Nat /\ Len(arguments') = 0
  BY <1>1
<1>5. sessions' \in 0 .. MaxSessions
  BY <1>1, SessionAssumption DEF SInv, TypeOK
<1>6. TypeOK'
  <2>1. place' \in 1 .. Len(arguments') + 1
    BY <1>1, <1>4
  <2>2. {pooling', controlPath', terminal', warned'} \subseteq BOOLEAN
    BY <1>1, <1>3
  <2>. QED  BY <1>1, <1>2, <1>5, <2>1, <2>2 DEF TypeOK
<1>. QED  BY <1>1, <1>4, <1>6 DEF SInv, SocketsFit, Started

LEMMA FailKeeps == SInv /\ Fail => SInv'
<1>. SUFFICES ASSUME SInv, Fail PROVE SInv'
  OBVIOUS
<1>1. /\ pc \in {"check", "fetch", "build", "spawn"} /\ pc' = "failed"
      /\ UNCHANGED <<asked, target, warned, arguments, reading, reached, pool>>
  BY DEF Fail
<1>2. TypeOK'
  BY <1>1 DEF SInv, TypeOK, asked, reading, pool
<1>. QED  BY <1>1, <1>2 DEF SInv, SocketsFit, Started, reading, pool

LEMMA CheckAvailableKeeps == SInv /\ CheckAvailable => SInv'
<1>. SUFFICES ASSUME SInv, CheckAvailable PROVE SInv'
  OBVIOUS
<1>1. /\ pc = "check" /\ pc' = "fetch" /\ warned' = UnpooledWarning
      /\ UNCHANGED <<asked, target, arguments, reading, reached, pool>>
  BY DEF CheckAvailable
<1>2. warned' \in BOOLEAN
  BY <1>1 DEF UnpooledWarning
<1>3. TypeOK'
  BY <1>1, <1>2 DEF SInv, TypeOK, asked, reading, pool
<1>. QED  BY <1>1, <1>3 DEF SInv, SocketsFit, Started, reading, pool

\* What is fetched is a target.
LEMMA FetchKeeps == SInv /\ Fetch => SInv'
<1>. SUFFICES ASSUME SInv, Fetch PROVE SInv'
  OBVIOUS
<1>1. /\ pc = "fetch" /\ pc' = "build"
      /\ UNCHANGED <<asked, warned, arguments, reading, reached, pool>>
  BY DEF Fetch
<1>2. target' \in SshTarget
  <2>1. PICK answer \in Answer :
           /\ TryNew(answer)
           /\ target' = [host |-> answer.host, user |-> answer.user, port |-> answer.port]
    BY DEF Fetch
  <2>. QED  BY <2>1 DEF Answer, TryNew, SshTarget
<1>3. TypeOK'
  BY <1>1, <1>2 DEF SInv, TypeOK, asked, reading, pool
<1>. QED  BY <1>1, <1>2, <1>3 DEF SInv, SocketsFit, Started, reading, pool

LEMMA BuildKeeps == SInv /\ Build => SInv'
<1>. SUFFICES ASSUME SInv, Build PROVE SInv'
  OBVIOUS
<1>1. /\ pc = "build" /\ pc' = "spawn"
      /\ UNCHANGED <<asked, target, warned, reading, reached, pool>>
  BY DEF Build
<1>2. TypeOK /\ target \in SshTarget /\ place = 1 /\ client = Unread
  BY <1>1 DEF SInv
<1>3. Laid' /\ Len(arguments') \in Nat /\ ~ CommandIsMissing'
  BY <1>2, BuildLays
<1>4. place' = 1 /\ client' = Unread /\ place' \in 1 .. Len(arguments') + 1
  BY <1>1, <1>2, <1>3 DEF reading
<1>5. TypeOK'
  BY <1>1, <1>4 DEF SInv, TypeOK, asked, pool
<1>6. target' \in SshTarget /\ SocketsFit'
  BY <1>1, <1>2 DEF SInv, SocketsFit, pool
<1>. QED  BY <1>1, <1>3, <1>4, <1>5, <1>6 DEF SInv, Started

\* A client that starts stops at the first place and knows nothing.
LEMMA SpawnKeeps == SInv /\ Spawn => SInv'
<1>. SUFFICES ASSUME SInv, Spawn PROVE SInv'
  OBVIOUS
<1>1. /\ pc = "spawn" /\ pc' = "reading"
      /\ UNCHANGED <<asked, target, warned, arguments, reading, reached, pool>>
  BY DEF Spawn
<1>2. TypeOK'
  BY <1>1 DEF SInv, TypeOK, asked, reading, pool
<1>3. /\ Laid' /\ ~ CommandIsMissing' /\ target' \in SshTarget
      /\ Stops' = Stops /\ PoolAt' = PoolAt /\ PortAt' = PortAt
      /\ Destination' = Destination /\ (MayPool' <=> MayPool)
      /\ mode' = mode
  <2>1. UNCHANGED <<mode, remote, pooling, controlPath, target, arguments>>
    BY <1>1 DEF asked
  <2>. QED  BY <1>1, <2>1, LayoutRests DEF SInv, Started
<1>4. Read'
  <2>1. place' = 1 /\ client' = Unread
    BY <1>1 DEF SInv, reading
  <2>2. /\ PoolAt \in {1, 4} /\ PortAt \in {PoolAt, PoolAt + 6}
        /\ mode = "captured" => PoolAt = 4
        /\ MayPool => PortAt = PoolAt + 6
        /\ Destination = PortAt + 2
    BY <1>1, Layout DEF Started
  <2>3. /\ ~ (place' > PortAt) /\ ~ (place' > Destination)
        /\ ~ (place' > Destination + 1)
        /\ mode = "captured" => ~ (place' >= PoolAt)
    BY <2>1, <2>2
  <2>4. place' \in Stops'
    BY <1>3, <2>1 DEF Stops
  <2>5. /\ Fields' /\ client'.host = "" /\ client'.command = <<>>
        /\ client'.user = "" /\ client'.port = "" /\ client'.ended = FALSE
        /\ client'.options = {}
    BY <2>1 DEF Fields, Unread
  <2>. QED  BY <1>3, <2>3, <2>4, <2>5 DEF Read, OwnRead
<1>. QED  BY <1>1, <1>2, <1>3, <1>4 DEF SInv, SocketsFit, Started, pool

\* At the end the client knows the target; its socket is named after all of it.
LEMMA ConnectKeeps == SInv /\ Connect => SInv'
<1>. SUFFICES ASSUME SInv, Connect PROVE SInv'
  OBVIOUS
<1>. DEFINE direct == [host |-> HostName, user |-> client.user, port |-> client.port]
<1>1. /\ pc = "reading" /\ place = Len(arguments) + 1 /\ pc' = "connected"
      /\ UNCHANGED <<asked, target, warned, arguments, reading, sessions>>
  BY DEF Connect
<1>2. Laid /\ Read /\ target \in SshTarget /\ ~ CommandIsMissing /\ TypeOK /\ SocketsFit
  BY <1>1 DEF SInv, Started
<1>3. place = End
  BY <1>1, Layout DEF Started
<1>6. [host |-> Socket[1], user |-> Socket[3], port |-> Socket[2]] = direct
  BY DEF Socket
<1>. HIDE DEF direct
<1>7. reached' = direct /\ SocketsFit'
  <2>1. CASE Pooled
    <3>1. /\ reached' = IF Socket \in DOMAIN sockets THEN sockets[Socket] ELSE direct
          /\ sockets' = [s \in DOMAIN sockets \union {Socket} |->
                            IF s = Socket THEN reached' ELSE sockets[s]]
      BY <2>1 DEF Connect, direct
    <3>2. reached' = direct
      BY <1>2, <1>6, <3>1 DEF SocketsFit
    <3>3. ASSUME NEW s \in DOMAIN sockets'
          PROVE  sockets'[s] = [host |-> s[1], user |-> s[3], port |-> s[2]]
      <4>1. CASE s = Socket
        BY <1>6, <3>1, <3>2, <4>1
      <4>2. CASE s # Socket
        BY <1>2, <3>1, <4>2 DEF SocketsFit
      <4>. QED  BY <4>1, <4>2
    <3>. QED  BY <3>2, <3>3 DEF SocketsFit
  <2>2. CASE ~ Pooled
    BY <1>2, <2>2 DEF Connect, direct, SocketsFit
  <2>. QED  BY <2>1, <2>2
<1>8. TypeOK'
  BY <1>1, <1>2 DEF TypeOK, asked, reading
<1>9. UNCHANGED <<mode, remote, pooling, controlPath, target, arguments, place, client>>
  BY <1>1 DEF asked, reading
<1>10. Laid' /\ ~ CommandIsMissing' /\ target' \in SshTarget
       /\ Read' /\ place' = End' /\ Len(arguments') \in Nat
  <2>1. Read' <=> Read
    BY <1>9, LayoutRests DEF Read, OwnRead, LedRead, Fields
  <2>. QED  BY <1>2, <1>3, <1>9, <2>1, LayoutRests DEF SInv
<1>11. reached' = [host |-> HostName, user |-> client.user, port |-> client.port]'
  BY <1>7, <1>9 DEF direct, HostName
<1>. QED  BY <1>1, <1>7, <1>8, <1>10, <1>11 DEF SInv, Started

LEMMA ExpireKeeps == SInv /\ Expire => SInv'
<1>. SUFFICES ASSUME SInv, Expire PROVE SInv'
  OBVIOUS
<1>1. UNCHANGED <<asked, target, warned, pc, arguments, reading, reached, sessions>>
  BY DEF Expire
<1>2. SocketsFit'
  <2>1. PICK socket \in DOMAIN sockets :
           sockets' = [s \in DOMAIN sockets \ {socket} |-> sockets[s]]
    BY DEF Expire
  <2>. QED  BY <2>1 DEF SInv, SocketsFit
<1>3. TypeOK'
  BY <1>1 DEF SInv, TypeOK, asked, reading
<1>4. UNCHANGED <<mode, remote, pooling, controlPath, target, arguments, place, client>>
  BY <1>1 DEF asked, reading
<1>5. (Read' <=> Read) /\ (Laid' <=> Laid) /\ (CommandIsMissing' <=> CommandIsMissing)
      /\ (LedByDash' <=> LedByDash) /\ End' = End /\ HostName' = HostName
  BY <1>4, LayoutRests DEF Read, OwnRead, LedRead, Fields, HostName
<1>. QED  BY <1>1, <1>2, <1>3, <1>4, <1>5 DEF SInv, Started

LEMMA StutterKeeps == SInv /\ UNCHANGED vars => SInv'
<1>. SUFFICES ASSUME SInv, UNCHANGED vars PROVE SInv'
  OBVIOUS
<1>1. UNCHANGED <<asked, target, warned, pc, arguments, reading, reached, pool>>
  BY DEF vars
<1>2. TypeOK' /\ SocketsFit'
  BY <1>1 DEF SInv, TypeOK, SocketsFit, asked, reading, pool
<1>3. UNCHANGED <<mode, remote, pooling, controlPath, target, arguments, place, client>>
  BY <1>1 DEF asked, reading
<1>4. (Read' <=> Read) /\ (Laid' <=> Laid) /\ (CommandIsMissing' <=> CommandIsMissing)
      /\ (LedByDash' <=> LedByDash) /\ End' = End /\ HostName' = HostName
  BY <1>3, LayoutRests DEF Read, OwnRead, LedRead, Fields, HostName
<1>. QED  BY <1>1, <1>2, <1>3, <1>4 DEF SInv, Started

LEMMA Invariance == Spec => []SInv
<1>1. SInv /\ [Next]_vars => SInv'
  BY AskKeeps, CheckAvailableKeeps, FetchKeeps, BuildKeeps, SpawnKeeps, FailKeeps,
     AloneKeeps, ValuedKeeps, EndKeeps, RefuseKeeps, DestinationKeeps, CommandKeeps,
     ConnectKeeps, ExpireKeeps, StutterKeeps DEF Next
<1>. QED  BY Initially, <1>1, PTL DEF Spec

-----------------------------------------------------------------------------
\* At the end of an array without such a command, the client knows the target
\* and the command.
LEMMA AtTheEnd ==
    ASSUME SInv, pc = "connected", ~ LedByDash
    PROVE  /\ client.host = target.host /\ client.user = target.user
           /\ client.port = target.port /\ HostName = client.host
           /\ client.command = remote
<1>1. OwnRead /\ place = End
  BY DEF SInv, Read, LedRead
<1>2. /\ Len(remote) \in Nat /\ remote \in Seq(Texts) /\ PortAt \in Nat
      /\ Destination = PortAt + 2 /\ End = Destination + Len(remote) + 1
  BY Layout DEF Started
<1>3. place > PortAt /\ place > Destination
  BY <1>1, <1>2
<1>4. client.command = remote
  <2>1. CASE remote = <<>>
    <3>1. place <= Destination + 1
      BY <1>1, <1>2, <2>1
    <3>. QED  BY <1>1, <2>1, <3>1 DEF OwnRead
  <2>2. CASE remote # <<>>
    <3>1. Len(remote) # 0
      BY <1>2, <2>2, EmptySeq
    <3>2. place > Destination + 1
      BY <1>1, <1>2, <3>1
    <3>. QED  BY <1>1, <3>2 DEF OwnRead
  <2>. QED  BY <2>1, <2>2
<1>. QED  BY <1>1, <1>3, <1>4 DEF OwnRead, HostName

\* A command runs where the API said and nowhere else, whatever the API may
\* answer and whatever connections earlier sessions left, those of commands led
\* by a dash among them; only such a command itself is excepted (build_arguments,
\* and %C in secure_control_path).
THEOREM GetsWhereItShould == Spec => []ReachesTheTarget
<1>1. SInv => ReachesTheTarget
  <2>. SUFFICES ASSUME SInv, pc = "connected", ~ LedByDash
                PROVE  reached = target
    BY DEF ReachesTheTarget
  <2>1. target \in SshTarget
    BY DEF SInv, Started
  <2>2. target = [host |-> target.host, user |-> target.user, port |-> target.port]
    BY <2>1 DEF SshTarget
  <2>3. reached = [host |-> HostName, user |-> client.user, port |-> client.port]
    BY DEF SInv
  <2>. QED  BY <2>2, <2>3, AtTheEnd
<1>. QED  BY <1>1, Invariance, PTL

\* The client refuses the array only where the user's command is led by a dash,
\* and takes any other command with all its arguments; it is forbidden to ask
\* whenever it is captured, whatever the command, and otherwise only by a command
\* led by a dash; and only ssh open and such a command get a shell
\* (build_arguments).
THEOREM ClientDoesWhatWasMeant == Spec => []ClientAsMeant
<1>1. SInv => ClientAsMeant
  <2>. SUFFICES ASSUME SInv PROVE ClientAsMeant
    OBVIOUS
  <2>1. TypeOK
    BY DEF SInv
  <2>2. ClientUnderstands
    BY AtTheEnd DEF ClientUnderstands, SInv
  <2>3. AsksOnlyAtTheTerminal
    <3>. SUFFICES ASSUME pc = "connected"
                  PROVE  /\ mode = "captured" => "BatchMode=yes" \in client.options
                         /\ "BatchMode=yes" \in client.options =>
                               mode = "captured" \/ LedByDash
      BY DEF AsksOnlyAtTheTerminal
    <3>1. (OwnRead \/ LedRead) /\ place = End
      BY DEF SInv, Read
    <3>2. place >= PoolAt
      <4>1. /\ Len(remote) \in Nat /\ PoolAt \in {1, 4}
            /\ PortAt \in {PoolAt, PoolAt + 6}
            /\ Destination = PortAt + 2 /\ End = Destination + Len(remote) + 1
        BY Layout DEF Started
      <4>. QED  BY <3>1, <4>1
    <3>3. CASE OwnRead
      BY <3>2, <3>3 DEF OwnRead
    <3>4. CASE LedRead
      BY <3>4 DEF LedRead
    <3>. QED  BY <3>1, <3>3, <3>4
  <2>4. OnlyOpenGetsAShell
    <3>. SUFFICES ASSUME pc = "connected", mode # "open", ~ LedByDash
                  PROVE  client.command # <<>> /\ Head(client.command) # ""
      BY DEF OnlyOpenGetsAShell
    <3>1. ~ CommandIsMissing
      BY DEF SInv, Started
    <3>2. client.command = remote
      BY AtTheEnd
    <3>. QED  BY <3>1, <3>2 DEF CommandIsMissing
  <2>. QED  BY <2>1, <2>2, <2>3, <2>4 DEF ClientAsMeant
<1>. QED  BY <1>1, Invariance, PTL

-----------------------------------------------------------------------------
(* The directory of the sockets, for any processes at the same time.       *)

Steps == {"uid", "uid known", "parent", "create", "inspect", "probe", "probed", "secure",
          "done"}
Entries == {None, Sharing!Other}
           \cup [kind : {"directory"}, mine : BOOLEAN, private : BOOLEAN]

SharingTypes ==
    /\ candidates \in [Sharing!Candidate -> [trusted : BOOLEAN, short : BOOLEAN]]
    /\ entry \in [Sharing!Candidate -> Entries]
    /\ step \in [Process -> Steps] /\ at \in [Process -> 0 .. 2]
    /\ asks \in [Process -> Nat] /\ probed \in [Process -> Nat]
    /\ control \in [Process -> Sharing!Candidate \cup {None}]
    /\ alone \in [Process -> BOOLEAN]
    /\ trouble \in BOOLEAN

\* What a candidate can still become, or is, and what every process that has no
\* trouble therefore comes to.
Fine(c) ==
    /\ candidates[c].trusted /\ candidates[c].short
    /\ entry[c] \in {None, Sharing!OwnDirectory}

FirstFine == IF Fine(1) THEN 1 ELSE IF Fine(2) THEN 2 ELSE None

\* What a process knows of the candidate it is at.
Knows(p) ==
    /\ step[p] \notin {"uid", "uid known", "done"} => at[p] \in Sharing!Candidate
    /\ step[p] \in {"create", "inspect", "probe", "probed", "secure"} =>
          candidates[at[p]].trusted
    /\ step[p] = "inspect" /\ Fine(at[p]) => entry[at[p]] = Sharing!OwnDirectory
    /\ step[p] \in {"probe", "probed", "secure"} => entry[at[p]] = Sharing!OwnDirectory
    /\ step[p] # "done" => control[p] = None /\ ~ alone[p]
    /\ step[p] = "done" => alone[p] \/ control[p] # None
    /\ control[p] # None =>
          /\ entry[control[p]] = Sharing!OwnDirectory
          /\ candidates[control[p]].trusted /\ candidates[control[p]].short

\* The probe file a process is to remove next.
Owns(p, file) ==
    \/ step[p] = "uid known" /\ file = Sharing!LastNumberProbe(p)
    \/ step[p] = "probed" /\ file = Sharing!LastOwnerProbe(p)

\* Without trouble, a candidate was left because nobody can use it, the search is
\* over where it must be, and every probe file is still to be removed.
Decides(p) ==
    /\ at[p] = 2 => ~ Fine(1)
    /\ step[p] = "done" => control[p] = FirstFine

Smooth ==
    ~ trouble =>
        /\ \A p \in Process : Decides(p)
        /\ \A file \in probes : \E p \in Process : Owns(p, file)

ShareInv ==
    /\ SharingTypes
    /\ \A p \in Process : Knows(p)
    /\ Smooth

\* A step of one process leaves what the others know; a candidate nobody could
\* use stays one, and so does one a process was glad to find.
Same(p) ==
    /\ step'[p] = step[p] /\ at'[p] = at[p] /\ asks'[p] = asks[p]
    /\ probed'[p] = probed[p] /\ control'[p] = control[p] /\ alone'[p] = alone[p]

EntryRests ==
    /\ candidates' = candidates
    /\ \A c \in Sharing!Candidate :
          entry'[c] = entry[c] \/ (entry[c] = None /\ entry'[c] = Sharing!OwnDirectory)

LEMMA CandidatesAre ==
    /\ Sharing!Candidate = {1, 2} /\ 0 .. 2 = {0, 1, 2}
    /\ 0 \notin Sharing!Candidate
BY DEF Sharing!Candidate

LEMMA FineRests ==
    ASSUME EntryRests
    PROVE  /\ \A c \in Sharing!Candidate : Fine(c)' <=> Fine(c)
           /\ FirstFine' = FirstFine
           /\ \A c \in Sharing!Candidate :
                 entry[c] = Sharing!OwnDirectory => entry'[c] = Sharing!OwnDirectory
<1>1. \A c \in Sharing!Candidate : Fine(c)' <=> Fine(c)
  BY DEF EntryRests, Fine
<1>2. 1 \in Sharing!Candidate /\ 2 \in Sharing!Candidate
  BY DEF Sharing!Candidate
<1>3. FirstFine' = FirstFine
  BY <1>1, <1>2 DEF FirstFine
<1>. QED  BY <1>1, <1>3 DEF EntryRests

LEMMA OthersKeep ==
    ASSUME ShareInv, EntryRests, NEW q \in Process, Same(q)
    PROVE  /\ Knows(q)'
           /\ ~ trouble => Decides(q)'
           /\ \A file : Owns(q, file)' <=> Owns(q, file)
<1>1. /\ at[q] \in 0 .. 2 /\ control[q] \in Sharing!Candidate \cup {None}
      /\ Knows(q) /\ (~ trouble => Decides(q))
  BY DEF ShareInv, SharingTypes, Smooth
<1>2. Knows(q)'
  BY <1>1, FineRests DEF Same, Knows, EntryRests
<1>3. ~ trouble => Decides(q)'
  <2>1. 1 \in Sharing!Candidate
    BY DEF Sharing!Candidate
  <2>. QED  BY <1>1, <2>1, FineRests DEF Same, Decides
<1>4. \A file : Owns(q, file)' <=> Owns(q, file)
  BY DEF Same, Owns, Sharing!LastNumberProbe, Sharing!LastOwnerProbe
<1>. QED  BY <1>2, <1>3, <1>4

LEMMA OneMoves ==
    ASSUME NEW p \in Process, ShareInv, SharingTypes', EntryRests,
           \A q \in Process \ {p} : Same(q),
           Knows(p)',
           ~ trouble' =>
              /\ ~ trouble /\ Decides(p)'
              /\ \A file \in probes' : Owns(p, file)' \/ (file \in probes /\ ~ Owns(p, file))
    PROVE  ShareInv'
<1>1. \A q \in Process : Knows(q)'
  BY OthersKeep
<1>2. Smooth'
  <2>. SUFFICES ASSUME ~ trouble'
                PROVE  /\ \A q \in Process : Decides(q)'
                       /\ \A file \in probes' : \E q \in Process : Owns(q, file)'
    BY DEF Smooth
  <2>1. \A q \in Process : Decides(q)'
    BY OthersKeep
  <2>2. ASSUME NEW file \in probes' PROVE \E q \in Process : Owns(q, file)'
    <3>1. CASE Owns(p, file)'
      BY <3>1
    <3>2. CASE file \in probes /\ ~ Owns(p, file)
      <4>1. PICK q \in Process : Owns(q, file)
        BY <3>2 DEF ShareInv, Smooth
      <4>2. q # p
        BY <3>2, <4>1
      <4>. QED  BY <4>1, <4>2, OthersKeep
    <3>. QED  BY <3>1, <3>2
  <2>. QED  BY <2>1, <2>2
<1>. QED  BY <1>1, <1>2 DEF ShareInv

\* What a process does with its place when it goes on, and when it is refused.
Placed ==
    /\ step' \in [Process -> Steps] /\ at' \in [Process -> 0 .. 2]
    /\ alone' \in [Process -> BOOLEAN]

LEMMA Proceeded ==
    ASSUME ShareInv, NEW p \in Process, NEW to \in Steps, Sharing!Proceeds(p, to)
    PROVE  /\ Placed /\ control' = control /\ at' = at /\ alone' = alone
           /\ step'[p] = to
           /\ \A q \in Process \ {p} : step'[q] = step[q]
BY DEF ShareInv, SharingTypes, Sharing!Proceeds, Sharing!Goes, Placed

LEMMA WasRefused ==
    ASSUME ShareInv, EntryRests, NEW p \in Process, step[p] # "done", Sharing!Refuses(p)
    PROVE  /\ Placed /\ control' = control
           /\ \A q \in Process \ {p} :
                 step'[q] = step[q] /\ at'[q] = at[q] /\ alone'[q] = alone[q]
           /\ Knows(p)'
           /\ at[p] # 0 /\ ~ Fine(at[p]) /\ Decides(p) => Decides(p)'
<1>1. /\ step \in [Process -> Steps] /\ at \in [Process -> 0 .. 2]
      /\ alone \in [Process -> BOOLEAN]
      /\ control[p] = None /\ ~ alone[p] /\ control' = control
  BY DEF ShareInv, SharingTypes, Knows, Sharing!Refuses
<1>2. {"uid", "done"} \subseteq Steps /\ 2 \in 0 .. 2 /\ {TRUE, FALSE} \subseteq BOOLEAN
  BY DEF Steps
<1>3. CASE at[p] = 1
  <2>1. /\ at' = [at EXCEPT ![p] = 1 + 1] /\ step' = [step EXCEPT ![p] = "uid"]
        /\ alone' = alone
    BY <1>1, <1>3 DEF Sharing!Refuses, Sharing!TriesNext, Sharing!Goes
  <2>2. /\ at'[p] = 2 /\ step'[p] = "uid" /\ Placed
        /\ \A q \in Process \ {p} : step'[q] = step[q] /\ at'[q] = at[q]
    BY <1>1, <1>2, <2>1 DEF Placed
  <2>3. Knows(p)'
    BY <1>1, <2>1, <2>2 DEF Knows
  <2>4. ~ Fine(at[p]) => Decides(p)'
    <3>1. ~ Fine(1) => ~ Fine(1)'
      BY FineRests DEF Sharing!Candidate
    <3>. QED  BY <1>3, <2>2, <3>1 DEF Decides
  <2>. QED  BY <1>1, <2>1, <2>2, <2>3, <2>4
<1>4. CASE at[p] # 1
  <2>1. /\ at' = at /\ step' = [step EXCEPT ![p] = "done"]
        /\ alone' = [alone EXCEPT ![p] = TRUE]
    BY <1>1, <1>4 DEF Sharing!Refuses, Sharing!TriesNext, Sharing!Warns, Sharing!Goes
  <2>2. /\ at'[p] = at[p] /\ step'[p] = "done" /\ alone'[p] /\ Placed
        /\ \A q \in Process \ {p} : step'[q] = step[q] /\ alone'[q] = alone[q]
    BY <1>1, <1>2, <2>1 DEF Placed
  <2>3. Knows(p)'
    BY <1>1, <2>1, <2>2 DEF Knows
  <2>4. at[p] # 0 /\ ~ Fine(at[p]) /\ Decides(p) => Decides(p)'
    <3>. SUFFICES ASSUME at[p] # 0, ~ Fine(at[p]), Decides(p) PROVE Decides(p)'
      OBVIOUS
    <3>1. at[p] = 2
      BY <1>1, <1>4
    <3>2. ~ Fine(1) /\ ~ Fine(2)
      BY <3>1 DEF Decides
    <3>3. FirstFine' = None /\ ~ Fine(1)'
      BY <3>2, FineRests DEF FirstFine, Sharing!Candidate
    <3>. QED  BY <1>1, <2>2, <3>3 DEF Decides
  <2>. QED  BY <1>1, <2>1, <2>2, <2>3, <2>4
<1>. QED  BY <1>3, <1>4

LEMMA StaysSame ==
    ASSUME NEW p \in Process, candidates' = candidates, entry' = entry
    PROVE  EntryRests
BY DEF EntryRests

\* The types of what a step leaves and of what moves a process.
LEMMA TypesKeep ==
    ASSUME ShareInv, Placed, candidates' = candidates, entry' \in [Sharing!Candidate -> Entries],
           asks' \in [Process -> Nat], probed' \in [Process -> Nat],
           control' \in [Process -> Sharing!Candidate \cup {None}], trouble' \in BOOLEAN
    PROVE  SharingTypes'
BY DEF ShareInv, SharingTypes, Placed

LEMMA StillDecides ==
    ASSUME EntryRests, NEW p \in Process, at'[p] = at[p], step'[p] # "done", Decides(p)
    PROVE  Decides(p)'
<1>1. Fine(1)' <=> Fine(1)
  BY FineRests DEF Sharing!Candidate
<1>. QED  BY <1>1 DEF Decides

LEMMA AskUidKeeps ==
    ASSUME ShareInv, NEW p \in Process, Sharing!AskUid(p) PROVE ShareInv'
<1>1. /\ candidates' = candidates /\ entry' = entry /\ probed' = probed /\ trouble' = trouble
      /\ asks' = [asks EXCEPT ![p] = @ + 1] /\ step[p] = "uid"
      /\ EntryRests /\ Knows(p) /\ asks \in [Process -> Nat] /\ (~ trouble => Decides(p))
  BY DEF Sharing!AskUid, EntryRests, ShareInv, SharingTypes, Smooth
<1>2. /\ asks' \in [Process -> Nat] /\ asks'[p] - 1 = asks[p]
      /\ \A q \in Process \ {p} : asks'[q] = asks[q]
  BY <1>1
<1>3. \A file : ~ Owns(p, file)
  BY <1>1 DEF Owns
<1>4. CASE Sharing!NumberProbe(p) \in probes
  <2>1. Sharing!Refuses(p) /\ probes' = probes
    BY <1>4 DEF Sharing!AskUid
  <2>2. trouble
    <3>. SUFFICES ASSUME ~ trouble PROVE FALSE
      BY DEF ShareInv, SharingTypes
    <3>1. PICK q \in Process : Owns(q, Sharing!NumberProbe(p))
      BY <1>4 DEF ShareInv, Smooth
    <3>2. q = p
      BY <3>1 DEF Owns, Sharing!NumberProbe, Sharing!LastNumberProbe, Sharing!LastOwnerProbe
    <3>. QED  BY <1>3, <3>1, <3>2
  <2>3. /\ Placed /\ control' = control /\ Knows(p)'
        /\ \A q \in Process \ {p} :
              step'[q] = step[q] /\ at'[q] = at[q] /\ alone'[q] = alone[q]
    BY <1>1, <2>1, WasRefused
  <2>4. SharingTypes'
    BY <1>1, <1>2, <2>3, TypesKeep DEF ShareInv, SharingTypes
  <2>5. \A q \in Process \ {p} : Same(q)
    BY <1>1, <1>2, <2>3 DEF Same
  <2>. QED  BY <1>1, <2>2, <2>3, <2>4, <2>5, OneMoves
<1>5. CASE Sharing!NumberProbe(p) \notin probes
  <2>1. /\ Sharing!Proceeds(p, "uid known") /\ "uid known" \in Steps
        /\ probes' = probes \cup {Sharing!NumberProbe(p)}
    BY <1>5 DEF Sharing!AskUid, Steps
  <2>2. /\ Placed /\ control' = control /\ at' = at /\ alone' = alone
        /\ step'[p] = "uid known"
        /\ \A q \in Process \ {p} : step'[q] = step[q]
    BY <2>1, Proceeded
  <2>3. SharingTypes'
    BY <1>1, <1>2, <2>2, TypesKeep DEF ShareInv, SharingTypes
  <2>4. \A q \in Process \ {p} : Same(q)
    BY <1>1, <1>2, <2>2 DEF Same
  <2>5. Knows(p)'
    BY <1>1, <2>2 DEF Knows
  <2>6. ~ trouble => Decides(p)'
    BY <1>1, <2>2, StillDecides
  <2>7. \A file : file = Sharing!NumberProbe(p) => Owns(p, file)'
    BY <1>2, <2>2 DEF Owns, Sharing!NumberProbe, Sharing!LastNumberProbe
  <2>. QED  BY <1>1, <1>3, <2>1, <2>3, <2>4, <2>5, <2>6, <2>7, OneMoves
<1>. QED  BY <1>4, <1>5

LEMMA ForgetUidKeeps ==
    ASSUME ShareInv, NEW p \in Process, Sharing!ForgetUid(p) PROVE ShareInv'
<1>1. /\ candidates' = candidates /\ entry' = entry /\ probed' = probed /\ asks' = asks
      /\ trouble' = trouble /\ control' = control /\ alone' = alone
      /\ probes' = probes \ {Sharing!LastNumberProbe(p)}
      /\ step[p] = "uid known" /\ EntryRests /\ Knows(p) /\ (~ trouble => Decides(p))
      /\ at \in [Process -> 0 .. 2] /\ step \in [Process -> Steps]
      /\ alone \in [Process -> BOOLEAN]
  BY DEF Sharing!ForgetUid, Sharing!Proceeds, EntryRests, ShareInv, SharingTypes, Smooth
<1>2. \A file \in probes' : file \in probes /\ ~ Owns(p, file)
  BY <1>1 DEF Owns
<1>3. /\ Placed /\ \A q \in Process \ {p} : step'[q] = step[q] /\ at'[q] = at[q]
      /\ step'[p] \in {"uid", "parent"}
      /\ at[p] = 0 => at'[p] = 1 /\ step'[p] = "uid"
      /\ at[p] # 0 => at'[p] = at[p]
  <2>1. {"uid", "parent"} \subseteq Steps /\ 1 \in 0 .. 2
    BY DEF Steps
  <2>2. CASE at[p] = 0
    <3>1. at' = [at EXCEPT ![p] = 1] /\ step' = [step EXCEPT ![p] = "uid"]
      BY <2>2 DEF Sharing!ForgetUid, Sharing!Goes
    <3>. QED  BY <1>1, <2>1, <2>2, <3>1 DEF Placed
  <2>3. CASE at[p] # 0
    <3>1. at' = at /\ step' = [step EXCEPT ![p] = "parent"]
      BY <2>3 DEF Sharing!ForgetUid, Sharing!Proceeds, Sharing!Goes
    <3>. QED  BY <1>1, <2>1, <2>3, <3>1 DEF Placed
  <2>. QED  BY <2>2, <2>3
<1>4. SharingTypes'
  BY <1>1, <1>3, TypesKeep DEF ShareInv, SharingTypes
<1>5. \A q \in Process \ {p} : Same(q)
  BY <1>1, <1>3 DEF Same
<1>6. Knows(p)'
  <2>1. at[p] # 0 => at[p] \in Sharing!Candidate
    BY <1>1, CandidatesAre
  <2>2. CASE at[p] = 0
    BY <1>1, <1>3, <2>2 DEF Knows
  <2>3. CASE at[p] # 0
    BY <1>1, <1>3, <2>1, <2>3 DEF Knows
  <2>. QED  BY <2>2, <2>3
<1>7. ~ trouble => Decides(p)'
  <2>1. CASE at[p] = 0
    BY <1>3, <2>1 DEF Decides
  <2>2. CASE at[p] # 0
    BY <1>1, <1>3, <2>2, StillDecides
  <2>. QED  BY <2>1, <2>2
<1>. QED  BY <1>1, <1>2, <1>4, <1>5, <1>6, <1>7, OneMoves

LEMMA CheckParentKeeps ==
    ASSUME ShareInv, NEW p \in Process, Sharing!CheckParent(p) PROVE ShareInv'
<1>1. /\ candidates' = candidates /\ entry' = entry /\ probed' = probed /\ asks' = asks
      /\ trouble' = trouble /\ probes' = probes /\ step[p] = "parent"
      /\ EntryRests /\ Knows(p) /\ (~ trouble => Decides(p))
  BY DEF Sharing!CheckParent, EntryRests, ShareInv, SharingTypes, Smooth
<1>0. at[p] \in Sharing!Candidate /\ at[p] # 0
  BY <1>1, CandidatesAre DEF Knows
<1>2. \A file : ~ Owns(p, file)
  BY <1>1 DEF Owns
<1>3. CASE candidates[at[p]].trusted
  <2>1. Sharing!Proceeds(p, "create") /\ "create" \in Steps
    BY <1>3 DEF Sharing!CheckParent, Steps
  <2>2. /\ Placed /\ control' = control /\ at' = at /\ alone' = alone
        /\ step'[p] = "create" /\ \A q \in Process \ {p} : step'[q] = step[q]
    BY <2>1, Proceeded
  <2>3. SharingTypes' /\ \A q \in Process \ {p} : Same(q)
    BY <1>1, <2>2, TypesKeep DEF ShareInv, SharingTypes, Same
  <2>4. Knows(p)'
    BY <1>0, <1>1, <1>3, <2>2 DEF Knows
  <2>. QED  BY <1>1, <1>2, <2>2, <2>3, <2>4, StillDecides, OneMoves
<1>4. CASE ~ candidates[at[p]].trusted
  <2>1. Sharing!Refuses(p) /\ ~ Fine(at[p])
    BY <1>4 DEF Sharing!CheckParent, Fine
  <2>2. /\ Placed /\ control' = control /\ Knows(p)' /\ (~ trouble => Decides(p)')
        /\ \A q \in Process \ {p} :
              step'[q] = step[q] /\ at'[q] = at[q] /\ alone'[q] = alone[q]
    BY <1>0, <1>1, <2>1, WasRefused
  <2>3. SharingTypes' /\ \A q \in Process \ {p} : Same(q)
    BY <1>1, <2>2, TypesKeep DEF ShareInv, SharingTypes, Same
  <2>. QED  BY <1>1, <1>2, <2>2, <2>3, OneMoves
<1>. QED  BY <1>3, <1>4

LEMMA CreateKeeps ==
    ASSUME ShareInv, NEW p \in Process, Sharing!Create(p) PROVE ShareInv'
<1>1. /\ candidates' = candidates /\ probed' = probed /\ asks' = asks
      /\ trouble' = trouble /\ probes' = probes /\ step[p] = "create"
      /\ entry' = [entry EXCEPT ![at[p]] = IF @ = None THEN Sharing!OwnDirectory ELSE @]
      /\ Knows(p) /\ (~ trouble => Decides(p)) /\ entry \in [Sharing!Candidate -> Entries]
      /\ Sharing!Proceeds(p, "inspect") /\ "inspect" \in Steps
  BY DEF Sharing!Create, ShareInv, SharingTypes, Smooth, Steps
<1>2. at[p] \in Sharing!Candidate /\ Sharing!OwnDirectory \in Entries
  BY <1>1 DEF Knows, Entries, Sharing!OwnDirectory
<1>3. /\ entry' \in [Sharing!Candidate -> Entries] /\ EntryRests
      /\ entry'[at[p]] = IF entry[at[p]] = None THEN Sharing!OwnDirectory ELSE entry[at[p]]
  BY <1>1, <1>2 DEF EntryRests
<1>4. /\ Placed /\ control' = control /\ at' = at /\ alone' = alone
      /\ step'[p] = "inspect" /\ \A q \in Process \ {p} : step'[q] = step[q]
  BY <1>1, Proceeded
<1>5. SharingTypes' /\ \A q \in Process \ {p} : Same(q)
  BY <1>1, <1>3, <1>4, TypesKeep DEF ShareInv, SharingTypes, Same
<1>6. Fine(at[p])' => entry'[at[p]] = Sharing!OwnDirectory
  BY <1>2, <1>3, <1>4, FineRests DEF Fine
<1>7. Knows(p)'
  BY <1>1, <1>2, <1>4, <1>6 DEF Knows
<1>8. \A file : ~ Owns(p, file)
  BY <1>1 DEF Owns
<1>. QED  BY <1>1, <1>3, <1>4, <1>5, <1>7, <1>8, StillDecides, OneMoves

LEMMA InspectKeeps ==
    ASSUME ShareInv, NEW p \in Process, Sharing!Inspect(p) PROVE ShareInv'
<1>1. /\ candidates' = candidates /\ entry' = entry /\ probed' = probed /\ asks' = asks
      /\ trouble' = trouble /\ probes' = probes /\ step[p] = "inspect"
      /\ EntryRests /\ Knows(p) /\ (~ trouble => Decides(p))
  BY DEF Sharing!Inspect, EntryRests, ShareInv, SharingTypes, Smooth
<1>2. at[p] \in Sharing!Candidate /\ at[p] # 0 /\ \A file : ~ Owns(p, file)
  BY <1>1, CandidatesAre DEF Knows, Owns
<1>3. CASE Sharing!Acceptable(at[p])
  <2>1. Sharing!Proceeds(p, "probe") /\ "probe" \in Steps
    BY <1>3 DEF Sharing!Inspect, Steps
  <2>2. /\ Placed /\ control' = control /\ at' = at /\ alone' = alone
        /\ step'[p] = "probe" /\ \A q \in Process \ {p} : step'[q] = step[q]
    BY <2>1, Proceeded
  <2>3. SharingTypes' /\ \A q \in Process \ {p} : Same(q)
    BY <1>1, <2>2, TypesKeep DEF ShareInv, SharingTypes, Same
  <2>4. Knows(p)'
    BY <1>1, <1>2, <1>3, <2>2 DEF Knows, Sharing!Acceptable
  <2>. QED  BY <1>1, <1>2, <2>2, <2>3, <2>4, StillDecides, OneMoves
<1>4. CASE ~ Sharing!Acceptable(at[p])
  <2>1. Sharing!Refuses(p) /\ ~ Fine(at[p])
    BY <1>1, <1>4 DEF Sharing!Inspect, Sharing!Acceptable, Knows
  <2>2. /\ Placed /\ control' = control /\ Knows(p)' /\ (~ trouble => Decides(p)')
        /\ \A q \in Process \ {p} :
              step'[q] = step[q] /\ at'[q] = at[q] /\ alone'[q] = alone[q]
    BY <1>1, <1>2, <2>1, WasRefused
  <2>3. SharingTypes' /\ \A q \in Process \ {p} : Same(q)
    BY <1>1, <2>2, TypesKeep DEF ShareInv, SharingTypes, Same
  <2>. QED  BY <1>1, <1>2, <2>2, <2>3, OneMoves
<1>. QED  BY <1>3, <1>4

LEMMA ProbeKeeps ==
    ASSUME ShareInv, NEW p \in Process, Sharing!Probe(p) PROVE ShareInv'
<1>1. /\ candidates' = candidates /\ entry' = entry /\ asks' = asks /\ trouble' = trouble
      /\ probed' = [probed EXCEPT ![p] = @ + 1] /\ step[p] = "probe"
      /\ EntryRests /\ Knows(p) /\ probed \in [Process -> Nat] /\ (~ trouble => Decides(p))
  BY DEF Sharing!Probe, EntryRests, ShareInv, SharingTypes, Smooth
<1>2. /\ probed' \in [Process -> Nat] /\ probed'[p] - 1 = probed[p]
      /\ \A q \in Process \ {p} : probed'[q] = probed[q]
  BY <1>1
<1>3. at[p] \in Sharing!Candidate /\ at[p] # 0 /\ \A file : ~ Owns(p, file)
  BY <1>1, CandidatesAre DEF Knows, Owns
<1>4. CASE Sharing!OwnerProbe(p) \in probes
  <2>1. Sharing!Refuses(p) /\ probes' = probes
    BY <1>4 DEF Sharing!Probe
  <2>2. trouble
    <3>. SUFFICES ASSUME ~ trouble PROVE FALSE
      BY DEF ShareInv, SharingTypes
    <3>1. PICK q \in Process : Owns(q, Sharing!OwnerProbe(p))
      BY <1>4 DEF ShareInv, Smooth
    <3>2. q = p
      BY <3>1 DEF Owns, Sharing!OwnerProbe, Sharing!LastNumberProbe, Sharing!LastOwnerProbe
    <3>. QED  BY <1>3, <3>1, <3>2
  <2>3. /\ Placed /\ control' = control /\ Knows(p)'
        /\ \A q \in Process \ {p} :
              step'[q] = step[q] /\ at'[q] = at[q] /\ alone'[q] = alone[q]
    BY <1>1, <2>1, WasRefused
  <2>4. SharingTypes' /\ \A q \in Process \ {p} : Same(q)
    BY <1>1, <1>2, <2>3, TypesKeep DEF ShareInv, SharingTypes, Same
  <2>. QED  BY <1>1, <2>2, <2>3, <2>4, OneMoves
<1>5. CASE Sharing!OwnerProbe(p) \notin probes
  <2>1. /\ Sharing!Proceeds(p, "probed") /\ "probed" \in Steps
        /\ probes' = probes \cup {Sharing!OwnerProbe(p)}
    BY <1>5 DEF Sharing!Probe, Steps
  <2>2. /\ Placed /\ control' = control /\ at' = at /\ alone' = alone
        /\ step'[p] = "probed" /\ \A q \in Process \ {p} : step'[q] = step[q]
    BY <2>1, Proceeded
  <2>3. SharingTypes' /\ \A q \in Process \ {p} : Same(q)
    BY <1>1, <1>2, <2>2, TypesKeep DEF ShareInv, SharingTypes, Same
  <2>4. Knows(p)'
    BY <1>1, <2>2 DEF Knows
  <2>5. \A file : file = Sharing!OwnerProbe(p) => Owns(p, file)'
    BY <1>2, <2>2 DEF Owns, Sharing!OwnerProbe, Sharing!LastOwnerProbe
  <2>. QED  BY <1>1, <1>3, <2>1, <2>2, <2>3, <2>4, <2>5, StillDecides, OneMoves
<1>. QED  BY <1>4, <1>5

LEMMA RemoveProbeKeeps ==
    ASSUME ShareInv, NEW p \in Process, Sharing!RemoveProbe(p) PROVE ShareInv'
<1>1. /\ candidates' = candidates /\ entry' = entry /\ probed' = probed /\ asks' = asks
      /\ trouble' = trouble /\ probes' = probes \ {Sharing!LastOwnerProbe(p)}
      /\ step[p] = "probed" /\ EntryRests /\ Knows(p) /\ (~ trouble => Decides(p))
      /\ Sharing!Proceeds(p, "secure") /\ "secure" \in Steps
  BY DEF Sharing!RemoveProbe, EntryRests, ShareInv, SharingTypes, Smooth, Steps
<1>2. \A file \in probes' : file \in probes /\ ~ Owns(p, file)
  BY <1>1 DEF Owns
<1>3. /\ Placed /\ control' = control /\ at' = at /\ alone' = alone
      /\ step'[p] = "secure" /\ \A q \in Process \ {p} : step'[q] = step[q]
  BY <1>1, Proceeded
<1>4. SharingTypes' /\ \A q \in Process \ {p} : Same(q)
  BY <1>1, <1>3, TypesKeep DEF ShareInv, SharingTypes, Same
<1>5. Knows(p)'
  BY <1>1, <1>3 DEF Knows
<1>. QED  BY <1>1, <1>2, <1>3, <1>4, <1>5, StillDecides, OneMoves

LEMMA SecureKeeps ==
    ASSUME Sharing!DirectoryAssumption, ShareInv, NEW p \in Process, Sharing!Secure(p)
    PROVE  ShareInv'
<1>1. /\ candidates' = candidates /\ probed' = probed /\ asks' = asks
      /\ trouble' = trouble /\ probes' = probes /\ step[p] = "secure"
      /\ entry' = [entry EXCEPT ![at[p]].private = TRUE]
      /\ Knows(p) /\ (~ trouble => Decides(p)) /\ entry \in [Sharing!Candidate -> Entries]
  BY DEF Sharing!Secure, ShareInv, SharingTypes, Smooth
<1>2. /\ at[p] \in Sharing!Candidate /\ at[p] # 0 /\ entry[at[p]] = Sharing!OwnDirectory
      /\ candidates[at[p]].trusted /\ \A file : ~ Owns(p, file)
  BY <1>1, CandidatesAre DEF Knows, Owns
<1>3. entry' = entry
  <2>1. [Sharing!OwnDirectory EXCEPT !.private = TRUE] = Sharing!OwnDirectory
    <3>. DEFINE Owned == [kind : {"directory"}, mine : {TRUE}, private : {TRUE}]
    <3>1. Sharing!OwnDirectory \in Owned
      BY DEF Sharing!OwnDirectory
    <3>2. \A directory \in Owned : [directory EXCEPT !.private = TRUE] = directory
      OBVIOUS
    <3>. QED  BY <3>1, <3>2
  <2>2. entry' = [entry EXCEPT ![at[p]] = [entry[at[p]] EXCEPT !.private = TRUE]]
    BY <1>1
  <2>3. entry' = [entry EXCEPT ![at[p]] = entry[at[p]]]
    BY <1>2, <2>1, <2>2
  <2>. QED  BY <1>1, <2>3
<1>4. EntryRests
  BY <1>1, <1>3 DEF EntryRests
<1>5. Sharing!Secured(at[p]) <=> candidates[at[p]].short
  BY <1>2, <1>3 DEF Sharing!Secured, Sharing!OwnDirectory
<1>6. CASE candidates[at[p]].short
  <2>1. /\ control' = [control EXCEPT ![p] = at[p]]
        /\ step' = [step EXCEPT ![p] = "done"] /\ at' = at /\ alone' = alone
    BY <1>5, <1>6 DEF Sharing!Secure, Sharing!Goes
  <2>2. "done" \in Steps
    BY DEF Steps
  <2>3. /\ Placed /\ control' \in [Process -> Sharing!Candidate \cup {None}]
        /\ control'[p] = at[p] /\ step'[p] = "done"
        /\ \A q \in Process \ {p} : step'[q] = step[q] /\ control'[q] = control[q]
    BY <1>2, <2>1, <2>2 DEF ShareInv, SharingTypes, Placed
  <2>4. SharingTypes' /\ \A q \in Process \ {p} : Same(q)
    BY <1>1, <1>3, <2>1, <2>3, TypesKeep DEF ShareInv, SharingTypes, Same
  <2>5. at[p] # None
    BY <1>2 DEF Sharing!DirectoryAssumption, Sharing!Candidate
  <2>6. Knows(p)'
    BY <1>1, <1>2, <1>3, <1>6, <2>3, <2>5 DEF Knows
  <2>7. ~ trouble => Decides(p)'
    <3>. SUFFICES ASSUME ~ trouble PROVE Decides(p)'
      OBVIOUS
    <3>1. Fine(at[p]) /\ at[p] \in {1, 2}
      BY <1>2, <1>6, CandidatesAre DEF Fine
    <3>2. FirstFine = at[p]
      BY <1>1, <3>1 DEF FirstFine, Decides
    <3>3. at[p] = 2 => ~ Fine(1)'
      BY <1>1, <1>4, FineRests, CandidatesAre DEF Decides
    <3>. QED  BY <1>4, <2>1, <2>3, <3>2, <3>3, FineRests DEF Decides
  <2>. QED  BY <1>1, <1>2, <1>4, <2>4, <2>6, <2>7, OneMoves
<1>7. CASE ~ candidates[at[p]].short
  <2>1. Sharing!Refuses(p) /\ ~ Fine(at[p])
    BY <1>5, <1>7 DEF Sharing!Secure, Fine
  <2>2. /\ Placed /\ control' = control /\ Knows(p)' /\ (~ trouble => Decides(p)')
        /\ \A q \in Process \ {p} :
              step'[q] = step[q] /\ at'[q] = at[q] /\ alone'[q] = alone[q]
    BY <1>1, <1>2, <1>4, <2>1, WasRefused
  <2>3. SharingTypes' /\ \A q \in Process \ {p} : Same(q)
    BY <1>1, <1>3, <2>2, TypesKeep DEF ShareInv, SharingTypes, Same
  <2>. QED  BY <1>1, <1>2, <1>4, <2>2, <2>3, OneMoves
<1>. QED  BY <1>6, <1>7

LEMMA SharingFailKeeps ==
    ASSUME ShareInv, NEW p \in Process, Sharing!Fail(p) PROVE ShareInv'
<1>1. /\ candidates' = candidates /\ entry' = entry /\ trouble' = TRUE
      /\ asks' = [asks EXCEPT ![p] = IF step[p] = "uid" THEN @ + 1 ELSE @]
      /\ probed' = [probed EXCEPT ![p] = IF step[p] = "probe" THEN @ + 1 ELSE @]
      /\ Sharing!Refuses(p) /\ step[p] # "done" /\ EntryRests
  BY DEF Sharing!Fail, EntryRests
<1>2. /\ asks' \in [Process -> Nat] /\ probed' \in [Process -> Nat]
      /\ \A q \in Process \ {p} : asks'[q] = asks[q] /\ probed'[q] = probed[q]
  BY <1>1 DEF ShareInv, SharingTypes
<1>3. /\ Placed /\ control' = control /\ Knows(p)'
      /\ \A q \in Process \ {p} :
            step'[q] = step[q] /\ at'[q] = at[q] /\ alone'[q] = alone[q]
  BY <1>1, WasRefused
<1>4. SharingTypes' /\ \A q \in Process \ {p} : Same(q)
  BY <1>1, <1>2, <1>3, TypesKeep DEF ShareInv, SharingTypes, Same
<1>. QED  BY <1>1, <1>3, <1>4, OneMoves

LEMMA RestartKeeps ==
    ASSUME ShareInv, NEW p \in Process, Sharing!Restart(p) PROVE ShareInv'
<1>1. /\ candidates' = candidates /\ entry' = entry /\ probes' = probes
      /\ trouble' = (trouble \/ step[p] # "done") /\ EntryRests
      /\ step' = [step EXCEPT ![p] = "uid"] /\ at' = [at EXCEPT ![p] = 0]
      /\ asks' = [asks EXCEPT ![p] = 0] /\ probed' = [probed EXCEPT ![p] = 0]
      /\ control' = [control EXCEPT ![p] = None] /\ alone' = [alone EXCEPT ![p] = FALSE]
  BY DEF Sharing!Restart, Sharing!Goes, EntryRests
<1>2. "uid" \in Steps /\ 0 \in 0 .. 2 /\ FALSE \in BOOLEAN /\ trouble' \in BOOLEAN
  BY <1>1 DEF Steps
<1>3. /\ Placed /\ asks' \in [Process -> Nat] /\ probed' \in [Process -> Nat]
      /\ control' \in [Process -> Sharing!Candidate \cup {None}]
      /\ \A q \in Process \ {p} : Same(q)
      /\ step'[p] = "uid" /\ at'[p] = 0 /\ control'[p] = None /\ ~ alone'[p]
  BY <1>1, <1>2 DEF ShareInv, SharingTypes, Placed, Same
<1>4. SharingTypes'
  BY <1>1, <1>2, <1>3, TypesKeep DEF ShareInv, SharingTypes
<1>5. Knows(p)' /\ Decides(p)'
  BY <1>3 DEF Knows, Decides
<1>6. ~ trouble' => ~ trouble /\ \A file : ~ Owns(p, file)
  BY <1>1 DEF Owns
<1>. QED  BY <1>1, <1>3, <1>4, <1>5, <1>6, OneMoves

LEMMA SharingBegins ==
    ASSUME Sharing!DirectoryAssumption, Sharing!Init PROVE ShareInv
<1>1. "uid" \in Steps /\ 0 \in 0 .. 2 /\ 0 \in Nat /\ {TRUE, FALSE} \subseteq BOOLEAN
  BY DEF Steps
<1>2. SharingTypes
  BY <1>1 DEF Sharing!Init, SharingTypes, Entries
<1>3. \A p \in Process : Knows(p) /\ Decides(p)
  BY DEF Sharing!Init, Knows, Decides
<1>. QED  BY <1>2, <1>3 DEF Sharing!Init, ShareInv, Smooth

LEMMA SharingSteps ==
    ASSUME Sharing!DirectoryAssumption, ShareInv, [Sharing!Next]_Sharing!vars
    PROVE  ShareInv'
<1>1. CASE UNCHANGED Sharing!vars
  <2>1. /\ SharingTypes' /\ EntryRests /\ probes' = probes /\ trouble' = trouble
        /\ \A q \in Process : Same(q)
    BY <1>1 DEF Sharing!vars, ShareInv, SharingTypes, EntryRests, Same
  <2>2. \A q \in Process : Knows(q)' /\ (~ trouble => Decides(q)')
    BY <2>1, OthersKeep
  <2>3. \A q \in Process, file \in probes : Owns(q, file)' <=> Owns(q, file)
    BY <2>1, OthersKeep
  <2>4. Smooth'
    BY <2>1, <2>2, <2>3 DEF ShareInv, Smooth
  <2>. QED  BY <2>1, <2>2, <2>4 DEF ShareInv
<1>2. ASSUME NEW p \in Process, Sharing!Step(p) \/ Sharing!Fail(p) \/ Sharing!Restart(p)
      PROVE  ShareInv'
  <2>1. CASE Sharing!AskUid(p)
    BY <2>1, AskUidKeeps
  <2>2. CASE Sharing!ForgetUid(p)
    BY <2>2, ForgetUidKeeps
  <2>3. CASE Sharing!CheckParent(p)
    BY <2>3, CheckParentKeeps
  <2>4. CASE Sharing!Create(p)
    BY <2>4, CreateKeeps
  <2>5. CASE Sharing!Inspect(p)
    BY <2>5, InspectKeeps
  <2>6. CASE Sharing!Probe(p)
    BY <2>6, ProbeKeeps
  <2>7. CASE Sharing!RemoveProbe(p)
    BY <2>7, RemoveProbeKeeps
  <2>8. CASE Sharing!Secure(p)
    BY <2>8, SecureKeeps
  <2>9. CASE Sharing!Fail(p)
    BY <2>9, SharingFailKeeps
  <2>10. CASE Sharing!Restart(p)
    BY <2>10, RestartKeeps
  <2>. QED  BY <1>2, <2>1, <2>2, <2>3, <2>4, <2>5, <2>6, <2>7, <2>8, <2>9, <2>10
            DEF Sharing!Step
<1>. QED  BY <1>1, <1>2 DEF Sharing!Next

\* Processes of one user at the same time share their connections, all or none of
\* them, only in a private directory of that user in a trusted place, and leave
\* no probe file behind unless a call failed or one was killed, for any number
\* of processes and of starts (ControlPool::discover and current_uid).
THEOREM ConnectionsStayPrivate == Sharing!Spec => []SharedAmongOwn
<1>1. Sharing!DirectoryAssumption
  BY PartsAssumption
<1>2. ShareInv => SharedAmongOwn
  <2>. SUFFICES ASSUME ShareInv
                PROVE  /\ Sharing!TypeOK /\ Sharing!SharesInPrivate /\ Sharing!SameForAll
                       /\ Sharing!NothingLeftBehind
    BY DEF SharedAmongOwn, Sharing!SharedAmongOwn
  <2>1. Sharing!TypeOK
    <3>1. \A c \in Sharing!Candidate : entry[c] # None =>
             /\ entry[c].kind \in {"directory", "other"}
             /\ entry[c].mine \in BOOLEAN /\ entry[c].private \in BOOLEAN
      <4>. SUFFICES ASSUME NEW c \in Sharing!Candidate, entry[c] # None
                    PROVE  /\ entry[c].kind \in {"directory", "other"}
                           /\ entry[c].mine \in BOOLEAN /\ entry[c].private \in BOOLEAN
        OBVIOUS
      <4>1. entry[c] \in Entries
        BY DEF ShareInv, SharingTypes
      <4>2. CASE entry[c] = Sharing!Other
        BY <4>2 DEF Sharing!Other
      <4>3. CASE entry[c] \in [kind : {"directory"}, mine : BOOLEAN, private : BOOLEAN]
        BY <4>3
      <4>. QED  BY <4>1, <4>2, <4>3 DEF Entries
    <3>2. /\ at \in [Process -> 0 .. 2]
          /\ control \in [Process -> Sharing!Candidate \cup {None}]
      BY DEF ShareInv, SharingTypes
    <3>3. \A p \in Process : (step[p] = "done") = (alone[p] \/ control[p] # None)
      BY DEF ShareInv, SharingTypes, Knows
    <3>. QED  BY <3>1, <3>2, <3>3 DEF Sharing!TypeOK
  <2>2. Sharing!SharesInPrivate
    BY DEF ShareInv, Knows, Sharing!SharesInPrivate
  <2>3. Sharing!SameForAll
    BY DEF ShareInv, Smooth, Decides, Sharing!SameForAll
  <2>4. Sharing!NothingLeftBehind
    BY DEF ShareInv, Smooth, Owns, Sharing!NothingLeftBehind
  <2>. QED  BY <2>1, <2>2, <2>3, <2>4
<1>. QED  BY <1>1, <1>2, SharingBegins, SharingSteps, PTL DEF Sharing!Spec
=============================================================================
