---------------------------- MODULE ControlProofs ----------------------------
(***************************************************************************)
(* Whatever the number of channels, the size of a page and of a mask's     *)
(* byte, and the numbers of questions are: a controller that reads the     *)
(* device's tables page by page reads each channel once and in order       *)
(* (ScanIsExact), no flow twice and none too few (FlowScanIsSound), and a  *)
(* rename does not leave it with a stale name (ViewIsCurrent).             *)
(*                                                                         *)
(* The argument: the pages under the number of the present question all    *)
(* begin behind what was read, and so does what they add, even if the      *)
(* table has changed since they were answered (ScanInv). A name that was   *)
(* read is the channel's, or the rename since then is still on its way to  *)
(* the controller (HeldInv); the mask that carries it names every channel  *)
(* that changed (MaskNames). Flows are pushed behind and taken out, so one *)
(* that was read never comes to lie ahead (ReadFlows). A page that is not  *)
(* the last brings an item (MoreInv), since the first one always fits, so  *)
(* that a scan gets on with each (ScanAdvances).                           *)
(***************************************************************************)
EXTENDS Control, SequenceTheorems, WellFoundedInduction, TLAPS
------------------------------------------------------------------------------
(* The inductive invariant *)

Entry == [id: Chan, name: Names, size: Nat]
Item  == Entry \cup Int

Questions == [to: {"device"}, op: {"channels", "flows"}, seq: Nat, idx: Nat \ {0}]
Pages     == [to: {"controller"}, op: {"channels", "flows"}, seq: Nat, items: Seq(Item),
              code: {"more", "ok"}]

TypeInv ==
    /\ names \in [Chan -> Names] /\ tx \in [Chan -> BOOLEAN] /\ flows \in Seq(Int)
    /\ events \in Seq(SUBSET Chan) /\ changes \in Nat
    /\ wire \subseteq Questions \cup Pages
    /\ scan \in [op: {"none", "channels", "flows"}, seq: Nat, idx: Nat \ {0}, got: Seq(Item)]
    /\ held \in [Chan -> SUBSET Names] /\ had \in Seq(Int) /\ removed \in BOOLEAN
    /\ view \in [Chan -> Names \cup {NoName}]
    /\ reads \in {"channels", "flows"}

\* A behaviour is about one table; only a scan of the channels reads for the
\* names shown.
TableInv ==
    /\ scan.op \in {"none", reads} /\ \A d \in wire : d.op = reads
    /\ scan.op # "channels" => reading = {}

\* Something is under way that will make the controller read channel c again.
Pending(c) ==
    \/ c \in dirty \cup missed
    \/ \E i \in 1..Len(events) : c \in events[i]
    \/ \E mask \in notices : c \in Marked(mask)

\* A name of before a rename is known to be old.
HeldInv ==
    /\ scan.op = "channels" => \A c \in Chan : names[c] \in held[c]
    /\ \A c \in Chan : \A nm \in held[c] : nm = names[c] \/ Pending(c)

\* Flows have ids of their own.
FlowsInv ==
    /\ \A i, j \in 1..Len(flows) : flows[i] = flows[j] => i = j
    /\ \A i \in 1..Len(flows) : flows[i] < changes
    /\ scan.op = "flows" /\ ~removed =>
          Len(had) <= Len(flows) /\ \A i \in 1..Len(had) : had[i] = flows[i]

\* What has been read of the channels.
ReadChannels(g) ==
    /\ Len(g) <= NChan
    /\ \A i \in 1..Len(g) : g[i].id = i /\ g[i].name \in held[i]

\* What has been read of the flows: none twice, and none that is still ahead.
ReadFlows(g) ==
    /\ g \in Seq(Int)
    /\ \A i, j \in 1..Len(g) : g[i] = g[j] => i = j
    /\ \A i \in 1..Len(g) : g[i] < changes
    /\ \A i \in 1..Len(g) : \A j \in 1..Len(flows) : g[i] = flows[j] => j <= Len(g)
    /\ ~removed => Len(g) <= Len(flows) /\ \A i \in 1..Len(g) : g[i] = flows[i]

\* What is read of the table the scan is about, and what it has when it ends.
Readable(g) ==
    /\ scan.op = "channels" => ReadChannels(g)
    /\ scan.op = "flows" => ReadFlows(g)

Complete(g) ==
    /\ scan.op = "channels" => Len(g) = NChan
    /\ scan.op = "flows" /\ ~removed => Len(had) <= Len(g)

\* The present question asks for what comes next, and its answers have it.
ScanInv ==
    scan.op # "none" =>
        /\ scan.idx = Len(scan.got) + 1 /\ Readable(scan.got)
        /\ \A d \in wire : d.seq = scan.seq =>
              /\ d.to = "device" => d.idx = scan.idx
              /\ d.to = "controller" => /\ Readable(scan.got \o d.items)
                                        /\ d.code = "ok" => Complete(scan.got \o d.items)

ControlInv == TypeInv /\ TableInv /\ HeldInv /\ FlowsInv /\ ScanInv /\ ViewIsCurrent

------------------------------------------------------------------------------
(* Numbers *)

\* A set of numbers has a least one.
LEMMA LeastNumber ==
    ASSUME NEW T, T \subseteq Nat, T # {}
    PROVE  \E x \in T : \A y \in T : x <= y
  <1> DEFINE R == OpToRel(<, Nat)
  <1>1. IsWellFoundedOn(R, Nat) BY NatLessThanWellFounded, Zenon
  <1> HIDE DEF R
  <1>2. PICK x \in T : \A y \in T : <<y, x>> \notin R BY <1>1, WFMin
  <1>3. ASSUME NEW y \in T, y < x PROVE FALSE
    <2>1. <<y, x>> \in R BY <1>3 DEF R, OpToRel
    <2> QED BY <1>2, <2>1
  <1>4. \A y \in T : x <= y BY <1>3
  <1> QED BY <1>4

\* A set of channels has a highest one.
LEMMA HighestChannel ==
    ASSUME NEW T, T \subseteq Chan, T # {}
    PROVE  Max(T) \in T /\ \A y \in T : y <= Max(T)
  <1> DEFINE U == {NChan - x : x \in T}
  <1>1. T \subseteq 1..NChan /\ NChan \in Nat BY ControlAssumption DEF Chan
  <1>2. U \subseteq Nat /\ U # {}
    <2>1. \A x \in T : NChan - x \in Nat BY <1>1
    <2>2. PICK x \in T : TRUE OBVIOUS
    <2>3. NChan - x \in U OBVIOUS
    <2>4. U \subseteq Nat BY <2>1
    <2> HIDE DEF U
    <2> QED BY <2>3, <2>4
  <1>3. PICK u \in U : \A v \in U : u <= v
    <2> HIDE DEF U
    <2> QED BY <1>2, LeastNumber
  <1>4. PICK x \in T : u = NChan - x OBVIOUS
  <1>5. \A y \in T : x >= y
    <2> TAKE y \in T
    <2>1. u <= NChan - y BY <1>3
    <2> QED BY <1>1, <1>4, <2>1
  <1>6. Max(T) \in T /\ \A y \in T : Max(T) >= y BY <1>5 DEF Max
  <1> QED BY <1>1, <1>6

\* Division with remainder.
LEMMA Quotient ==
    ASSUME NEW m \in Int, m > 0, NEW x \in Int
    PROVE  x \div m \in Int /\ x % m \in 0..m - 1 /\ x = (x \div m) * m + (x % m)
  OBVIOUS

\* Quotients are as large as what is divided.
LEMMA QuotientsGrow ==
    ASSUME NEW m \in Int, m > 0, NEW x \in Int, NEW y \in Int, x <= y, 0 <= x
    PROVE  0 <= x \div m /\ x \div m <= y \div m
  OBVIOUS

\* The mask of channel_change has as many bytes as the highest channel needs:
\* it names every channel that has changed.
LEMMA MaskNames ==
    ASSUME NEW changed, changed \subseteq Chan, NEW c \in changed
    PROVE  c \in Marked(ChannelChange(changed))
  <1> DEFINE top == Max(changed)
             b == (c - 1) \div ByteBits
             i == (c - 1) % ByteBits
             last == (top - 1) \div ByteBits
             bits(k) == {(x - 1) % ByteBits : x \in {d \in changed : (d - 1) \div ByteBits = k}}
             mask == [k \in 0..last |-> bits(k)]
  <1>1. top \in changed /\ c <= top BY HighestChannel
  <1>2. /\ c \in Int /\ c - 1 \in Int /\ 0 <= c - 1 /\ top - 1 \in Int /\ c - 1 <= top - 1
        /\ ByteBits \in Int /\ ByteBits > 0
    <2>1. NChan \in Nat /\ ByteBits \in Int /\ ByteBits > 0 BY ControlAssumption
    <2>2. c \in 1..NChan /\ top \in 1..NChan BY <1>1 DEF Chan
    <2> HIDE DEF top
    <2> QED BY <1>1, <2>1, <2>2
  <1>3. b \in Int /\ last \in Int /\ 0 <= b /\ b <= last
    <2> DEFINE x == c - 1
               y == top - 1
    <2>1. x \in Int /\ y \in Int /\ 0 <= x /\ x <= y BY <1>2
    <2> HIDE DEF x, y
    <2>2. x \div ByteBits \in Int /\ y \div ByteBits \in Int BY <1>2, <2>1, Quotient
    <2>3. 0 <= x \div ByteBits /\ x \div ByteBits <= y \div ByteBits BY <1>2, <2>1, QuotientsGrow
    <2> QED BY <2>2, <2>3 DEF x, y
  <1>4. c - 1 = b * ByteBits + i /\ i \in Int
    <2> DEFINE x == c - 1
    <2>1. x \in Int BY <1>2
    <2> HIDE DEF x
    <2>2. x = (x \div ByteBits) * ByteBits + (x % ByteBits) /\ x % ByteBits \in Int
      BY <1>2, <2>1, Quotient
    <2> QED BY <2>2 DEF x
  <1>5. i \in bits(b) OBVIOUS
  <1>6. ChannelChange(changed) = mask BY DEF ChannelChange
  <1> HIDE DEF b, i, last, bits, top
  <1>7. c = b * ByteBits + i + 1
    <2> DEFINE w == b * ByteBits
    <2>1. w \in Int BY <1>2, <1>3
    <2>2. c - 1 = w + i BY <1>4
    <2> HIDE DEF w
    <2>3. c = w + i + 1 BY <1>2, <1>4, <2>1, <2>2
    <2> QED BY <2>3 DEF w
  <1>8. b \in DOMAIN mask /\ i \in mask[b] BY <1>3, <1>5
  <1> HIDE DEF mask
  <1> QED BY <1>6, <1>7, <1>8 DEF Marked

------------------------------------------------------------------------------
(* Pages *)

\* The rest of a table.
LEMMA RestOfTable ==
    ASSUME NEW S, NEW s \in Seq(S), NEW start \in Nat
    PROVE  /\ From(s, start) \in Seq(S)
           /\ Len(From(s, start)) = IF start >= Len(s) THEN 0 ELSE Len(s) - start
           /\ \A i \in 1..Len(From(s, start)) : From(s, start)[i] = s[start + i]
  <1>1. Len(s) \in Nat /\ \A i \in 1..Len(s) : s[i] \in S BY LenProperties, ElementOfSeq
  <1>2. CASE start >= Len(s) BY <1>1, <1>2, EmptySeq DEF From
  <1>3. CASE start < Len(s)
    <2>1. From(s, start) = SubSeq(s, start + 1, Len(s)) BY <1>1, <1>3 DEF From
    <2>2. /\ SubSeq(s, start + 1, Len(s)) \in Seq(S)
          /\ Len(SubSeq(s, start + 1, Len(s))) = Len(s) - start
          /\ \A i \in 1..Len(s) - start : SubSeq(s, start + 1, Len(s))[i] = s[start + i]
      BY <1>1, <1>3
    <2> QED BY <1>1, <1>3, <2>1, <2>2
  <1> QED BY <1>1, <1>2, <1>3

\* The first items of the rest.
LEMMA FirstItems ==
    ASSUME NEW S, NEW s \in Seq(S), NEW start \in Nat, NEW n \in 0..Len(From(s, start))
    PROVE  /\ SubSeq(From(s, start), 1, n) \in Seq(S)
           /\ Len(SubSeq(From(s, start), 1, n)) = n
           /\ \A i \in 1..n : SubSeq(From(s, start), 1, n)[i] = s[start + i]
           /\ n > 0 => start + n <= Len(s)
           /\ n = Len(From(s, start)) => start + n >= Len(s)
  <1> DEFINE r == From(s, start)
  <1>1. /\ r \in Seq(S) /\ Len(r) = IF start >= Len(s) THEN 0 ELSE Len(s) - start
        /\ \A i \in 1..Len(r) : r[i] = s[start + i]
    BY RestOfTable
  <1>2. Len(s) \in Nat /\ Len(r) \in Nat BY <1>1, LenProperties
  <1>3. n \in 0..Len(r) OBVIOUS
  <1> HIDE DEF r
  <1>4. /\ SubSeq(r, 1, n) \in Seq(S) /\ Len(SubSeq(r, 1, n)) = n
        /\ \A i \in 1..n : SubSeq(r, 1, n)[i] = r[i]
    BY <1>1, <1>2, <1>3
  <1>5. \A i \in 1..n : SubSeq(r, 1, n)[i] = s[start + i] BY <1>1, <1>2, <1>3, <1>4
  <1>6. (n > 0 => start + n <= Len(s)) /\ (n = Len(r) => start + n >= Len(s))
    BY <1>1, <1>2, <1>3
  <1> QED BY <1>4, <1>5, <1>6 DEF r

\* Strings that are not there take no bytes.
LEMMA NoBytes == Bytes(<<>>) = 0
  <1> DEFINE D == DOMAIN <<>>
             Sums(f) == f = [s \in SUBSET D |-> IF s = {} THEN 0 ELSE f[s \ {Max(s)}] + <<>>[Max(s)].size]
             g == [s \in SUBSET D |-> 0]
  <1>1. D = {} OBVIOUS
  <1>2. \A s \in SUBSET D : s = {} BY <1>1
  <1>3. Sums(g) BY <1>2
  <1>4. Bytes(<<>>) = (CHOOSE f : Sums(f))[D] BY DEF Bytes, FoldLeft, MapThenFoldSet
  <1> HIDE DEF g
  <1>5. PICK f : f = (CHOOSE h : Sums(h)) /\ Sums(f)
    <2> HIDE DEF Sums
    <2> QED BY <1>3
  <1>6. f[D] = 0
    <2>1. {} \in SUBSET D OBVIOUS
    <2> QED BY <1>1, <1>5, <2>1
  <1> HIDE DEF Sums, D
  <1> QED BY <1>4, <1>5, <1>6

\* A page of channels: what comes next, in order; and the last page ends with
\* the last channel. That the loop of encode_rx_channels stops somewhere is
\* that there is a least number of items at which it may.
LEMMA ChannelPage ==
    ASSUME TypeInv, NEW start \in Nat
    PROVE  /\ EncodeRxChannels(start).items \in Seq(Entry)
           /\ EncodeRxChannels(start).code \in {"more", "ok"}
           /\ \A i \in 1..Len(EncodeRxChannels(start).items) :
                 /\ start + i \in Chan
                 /\ EncodeRxChannels(start).items[i].id = start + i
                 /\ EncodeRxChannels(start).items[i].name = names[start + i]
           /\ Len(EncodeRxChannels(start).items) > 0 =>
                 start + Len(EncodeRxChannels(start).items) <= NChan
           /\ EncodeRxChannels(start).code = "ok" =>
                 start + Len(EncodeRxChannels(start).items) >= NChan
           /\ EncodeRxChannels(start).code = "more" =>
                 /\ Len(EncodeRxChannels(start).items) > 0
                 /\ start + Len(EncodeRxChannels(start).items) < NChan
  <1> DEFINE table == RxChannels
             rest  == From(table, start)
             space == IF Len(rest) < PageSlots THEN Len(rest) ELSE PageSlots
             fits(k) == Bytes(SubSeq(rest, 1, k)) < PageRoom
             n     == CHOOSE k \in 0..space : (\A j \in 0..k - 1 : fits(j)) /\ (k < space => ~fits(k))
  <1>1. EncodeRxChannels(start) = [items |-> SubSeq(rest, 1, n),
                                   code |-> IF n < Len(rest) THEN "more" ELSE "ok"]
    BY DEF EncodeRxChannels
  <1>2. table \in [1..NChan -> Entry] /\ \A c \in Chan : table[c].id = c /\ table[c].name = names[c]
    <2>1. ASSUME NEW c \in Chan
          PROVE  NameSize[names[c]] + (IF tx[c] THEN TxSize ELSE 0) \in Nat /\ names[c] \in Names
      BY ControlAssumption DEF TypeInv
    <2> QED BY <2>1 DEF RxChannels, Entry, Chan
  <1>3. table \in Seq(Entry) /\ Len(table) = NChan /\ NChan \in Nat
    <2> HIDE DEF table
    <2> QED BY <1>2, ControlAssumption
  <1> HIDE DEF table
  <1>4. /\ Len(rest) \in Nat /\ rest \in Seq(Entry)
        /\ Len(rest) = IF start >= NChan THEN 0 ELSE NChan - start
    BY <1>3, RestOfTable, LenProperties
  <1>20. fits(0)
    <2> HIDE DEF rest
    <2>1. SubSeq(rest, 1, 0) = <<>> BY <1>4
    <2>2. Bytes(SubSeq(rest, 1, 0)) = 0 BY <2>1, NoBytes, Zenon
    <2>3. 0 < PageRoom BY ControlAssumption
    <2> QED BY <2>2, <2>3
  <1> HIDE DEF rest, fits
  <1>5. space \in Nat /\ space <= Len(rest) BY <1>4, ControlAssumption
  <1>6. n \in 0..space /\ (n < space => ~fits(n))
    <2> DEFINE stops == {k \in 0..space : k = space \/ ~fits(k)}
    <2> HIDE DEF space
    <2>1. stops \subseteq Nat /\ space \in stops BY <1>5
    <2>2. PICK k \in stops : \A j \in stops : k <= j
      <3> HIDE DEF stops
      <3> QED BY <2>1, LeastNumber
    <2>3. k \in 0..space /\ (k < space => ~fits(k)) BY <1>5, <2>2
    <2>4. \A j \in 0..k - 1 : fits(j)
      <3> SUFFICES ASSUME NEW j \in 0..k - 1, ~fits(j) PROVE FALSE OBVIOUS
      <3>1. j \in stops BY <1>5, <2>3
      <3>2. k <= j BY <2>2, <3>1
      <3> QED BY <1>5, <2>3, <3>2
    <2> QED BY <2>3, <2>4
  <1>21. n < Len(rest) => n > 0 /\ start + n < NChan
    <2> HIDE DEF n
    <2>1. Len(rest) > 0 => space > 0 BY <1>4, ControlAssumption
    <2> HIDE DEF space
    <2>2. n < Len(rest) => n # 0 BY <1>20, <1>4, <1>5, <1>6, <2>1
    <2>3. n \in Nat BY <1>5, <1>6
    <2> QED BY <1>3, <1>4, <2>2, <2>3
  <1> HIDE DEF space, n
  <1>7. n \in 0..Len(rest) BY <1>4, <1>5, <1>6
  <1> DEFINE page == SubSeq(rest, 1, n)
  <1>8. /\ page \in Seq(Entry) /\ Len(page) = n /\ \A i \in 1..n : page[i] = table[start + i]
        /\ n > 0 => start + n <= NChan
        /\ n = Len(rest) => start + n >= NChan
    BY <1>3, <1>7, FirstItems DEF rest
  <1> HIDE DEF page
  <1>9. EncodeRxChannels(start) = [items |-> page, code |-> IF n < Len(rest) THEN "more" ELSE "ok"]
    BY <1>1 DEF page
  <1>10. /\ EncodeRxChannels(start).items = page
         /\ EncodeRxChannels(start).code \in {"more", "ok"}
         /\ EncodeRxChannels(start).code = "ok" => n = Len(rest)
         /\ EncodeRxChannels(start).code = "more" => n < Len(rest)
    BY <1>4, <1>7, <1>9
  <1>11. \A i \in 1..Len(page) :
            start + i \in Chan /\ page[i].id = start + i /\ page[i].name = names[start + i]
    <2> TAKE i \in 1..Len(page)
    <2>1. i \in 1..n /\ n > 0 BY <1>4, <1>7, <1>8
    <2>2. start + i \in Chan BY <1>3, <1>4, <1>7, <1>8, <2>1 DEF Chan
    <2> QED BY <1>2, <1>8, <2>1, <2>2
  <1> QED BY <1>21, <1>8, <1>9, <1>10, <1>11

\* A page of flows.
LEMMA FlowPage ==
    ASSUME TypeInv, NEW start \in Nat
    PROVE  /\ EncodeRxFlows(start).items \in Seq(Int)
           /\ EncodeRxFlows(start).code \in {"more", "ok"}
           /\ \A i \in 1..Len(EncodeRxFlows(start).items) : EncodeRxFlows(start).items[i] = flows[start + i]
           /\ Len(EncodeRxFlows(start).items) > 0 => start + Len(EncodeRxFlows(start).items) <= Len(flows)
           /\ EncodeRxFlows(start).code = "ok" => start + Len(EncodeRxFlows(start).items) >= Len(flows)
           /\ EncodeRxFlows(start).code = "more" => Len(EncodeRxFlows(start).items) > 0
  <1> DEFINE rest == From(flows, start)
             n    == IF Len(rest) < PageSlots THEN Len(rest) ELSE PageSlots
             page == SubSeq(rest, 1, n)
  <1>1. EncodeRxFlows(start) = [items |-> page, code |-> IF n < Len(rest) THEN "more" ELSE "ok"]
    BY DEF EncodeRxFlows
  <1>2. flows \in Seq(Int) BY DEF TypeInv
  <1>3. Len(rest) \in Nat BY <1>2, RestOfTable, LenProperties
  <1> HIDE DEF rest
  <1>4. n \in 0..Len(rest) /\ (n < Len(rest) => n > 0) BY <1>3, ControlAssumption
  <1> HIDE DEF n
  <1>5. /\ page \in Seq(Int) /\ Len(page) = n /\ \A i \in 1..n : page[i] = flows[start + i]
        /\ n > 0 => start + n <= Len(flows)
        /\ n = Len(rest) => start + n >= Len(flows)
    BY <1>2, <1>4, FirstItems DEF rest
  <1>6. /\ EncodeRxFlows(start).items = page
        /\ EncodeRxFlows(start).code \in {"more", "ok"}
        /\ EncodeRxFlows(start).code = "ok" => n = Len(rest)
        /\ EncodeRxFlows(start).code = "more" => n < Len(rest)
    BY <1>1, <1>3, <1>4
  <1> HIDE DEF page
  <1> QED BY <1>4, <1>5, <1>6

------------------------------------------------------------------------------
(* What a page adds to what was read *)

\* The types of what the proofs are about.
LEMMA ScanTypes ==
    ASSUME TypeInv
    PROVE  /\ scan.op \in {"none", "channels", "flows"} /\ scan.seq \in Nat
           /\ scan.idx \in Nat \ {0} /\ scan.got \in Seq(Item) /\ Len(scan.got) \in Nat
           /\ flows \in Seq(Int) /\ Len(flows) \in Nat /\ had \in Seq(Int) /\ Len(had) \in Nat
           /\ events \in Seq(SUBSET Chan) /\ Len(events) \in Nat /\ changes \in Nat
           /\ NChan \in Nat
  <1>1. /\ scan.op \in {"none", "channels", "flows"} /\ scan.seq \in Nat
        /\ scan.idx \in Nat \ {0} /\ scan.got \in Seq(Item)
    BY DEF TypeInv
  <1>2. flows \in Seq(Int) /\ had \in Seq(Int) /\ events \in Seq(SUBSET Chan) /\ changes \in Nat
    BY DEF TypeInv
  <1> QED BY <1>1, <1>2, LenProperties, ControlAssumption

\* A datagram is a question or a page.
LEMMA WireTypes ==
    ASSUME TypeInv, NEW d \in wire
    PROVE  /\ d.to \in {"device", "controller"} /\ d.seq \in Nat
           /\ d.to = "device" => d \in Questions /\ d.idx \in Nat \ {0}
           /\ d.to = "controller" => /\ d \in Pages /\ d.items \in Seq(Item)
                                     /\ d.code \in {"more", "ok"} /\ Len(d.items) \in Nat
  <1>1. CASE d \in Questions BY <1>1 DEF Questions
  <1>2. CASE d \in Pages
    <2>1. d.to = "controller" /\ d.items \in Seq(Item) /\ d.seq \in Nat /\ d.code \in {"more", "ok"}
      BY <1>2 DEF Pages
    <2> QED BY <1>2, <2>1, LenProperties
  <1> QED BY <1>1, <1>2 DEF TypeInv

\* The next page of channels.
LEMMA NextChannels ==
    ASSUME TypeInv, HeldInv, ScanInv, scan.op = "channels",
           NEW page, page = EncodeRxChannels(Len(scan.got))
    PROVE  /\ ReadChannels(scan.got \o page.items)
           /\ page.code = "ok" => Len(scan.got \o page.items) = NChan
  <1> DEFINE got == scan.got
             m == Len(got)
             items == page.items
             k == Len(items)
             g == got \o items
  <1>1. m \in Nat /\ got \in Seq(Item) /\ NChan \in Nat BY ScanTypes
  <1>2. m <= NChan /\ \A i \in 1..m : got[i].id = i /\ got[i].name \in held[i]
    BY DEF ScanInv, Readable, ReadChannels
  <1>3. /\ items \in Seq(Entry)
        /\ \A i \in 1..k : m + i \in Chan /\ items[i].id = m + i /\ items[i].name = names[m + i]
        /\ k > 0 => m + k <= NChan
        /\ page.code = "ok" => m + k >= NChan
    BY <1>1, ChannelPage
  <1>4. items \in Seq(Item) /\ k \in Nat
    <2> HIDE DEF items
    <2> QED BY <1>3, SeqMonotonic, LenProperties DEF Item
  <1> HIDE DEF got, items
  <1>5. Len(g) = m + k /\ \A i \in 1..m + k : g[i] = IF i <= m THEN got[i] ELSE items[i - m]
    BY <1>1, <1>4, ConcatProperties
  <1> HIDE DEF g, m, k
  <1>6. Len(g) <= NChan BY <1>1, <1>2, <1>3, <1>4, <1>5
  <1>7. ASSUME NEW i \in 1..Len(g) PROVE g[i].id = i /\ g[i].name \in held[i]
    <2>1. CASE i <= m
      <3>1. i \in 1..m /\ g[i] = got[i] BY <1>1, <1>4, <1>5, <2>1
      <3> QED BY <1>2, <3>1
    <2>2. CASE i > m
      <3>1. i - m \in 1..k /\ g[i] = items[i - m] /\ m + (i - m) = i BY <1>1, <1>4, <1>5, <2>2
      <3>2. i \in Chan /\ g[i].id = i /\ g[i].name = names[i] BY <1>3, <3>1
      <3> QED BY <3>2 DEF HeldInv
    <2> QED BY <1>1, <1>4, <1>5, <2>1, <2>2
  <1>8. page.code = "ok" => Len(g) = NChan BY <1>1, <1>3, <1>4, <1>5, <1>6
  <1> QED BY <1>6, <1>7, <1>8 DEF ReadChannels, g, got, items

\* The next page of flows.
LEMMA NextFlows ==
    ASSUME TypeInv, FlowsInv, ScanInv, scan.op = "flows",
           NEW page, page = EncodeRxFlows(Len(scan.got))
    PROVE  /\ ReadFlows(scan.got \o page.items)
           /\ page.code = "ok" /\ ~removed => Len(had) <= Len(scan.got \o page.items)
  <1> DEFINE got == scan.got
             m == Len(got)
             items == page.items
             k == Len(items)
             g == got \o items
  <1>1. /\ m \in Nat /\ flows \in Seq(Int) /\ Len(flows) \in Nat /\ Len(had) \in Nat /\ changes \in Nat
    BY ScanTypes
  <1>2. ReadFlows(got)
    BY DEF ScanInv, Readable
  <1>3. /\ items \in Seq(Int)
        /\ \A i \in 1..k : items[i] = flows[m + i]
        /\ k > 0 => m + k <= Len(flows)
        /\ page.code = "ok" => m + k >= Len(flows)
    BY <1>1, FlowPage
  <1> HIDE DEF got, items
  <1>4. k \in Nat /\ got \in Seq(Int) BY <1>2, <1>3, LenProperties DEF ReadFlows
  <1>5. /\ g \in Seq(Int) /\ Len(g) = m + k
        /\ \A i \in 1..m + k : g[i] = IF i <= m THEN got[i] ELSE items[i - m]
    BY <1>3, <1>4, ConcatProperties
  <1> HIDE DEF g, m, k
  <1>6. ASSUME NEW i \in 1..Len(g)
        PROVE  \/ i \in 1..m /\ g[i] = got[i]
               \/ i > m /\ i \in 1..Len(flows) /\ g[i] = flows[i]
    <2>1. CASE i <= m BY <1>1, <1>4, <1>5, <2>1
    <2>2. CASE i > m
      <3>1. i \in Int /\ 1 <= i /\ i <= m + k BY <1>1, <1>4, <1>5
      <3>2. g[i] = items[i - m] BY <1>1, <1>4, <1>5, <2>2, <3>1
      <3>3. i - m \in 1..k /\ m + (i - m) = i /\ k > 0 BY <1>1, <1>4, <2>2, <3>1
      <3>4. items[i - m] = flows[i] BY <1>3, <3>3
      <3>5. i \in 1..Len(flows) BY <1>1, <1>3, <1>4, <3>1, <3>3
      <3> QED BY <2>2, <3>2, <3>4, <3>5
    <2> QED BY <1>1, <1>4, <1>5, <2>1, <2>2
  <1>7. m <= Len(g) /\ Len(g) \in Nat BY <1>1, <1>4, <1>5
  <1>8. /\ \A i, j \in 1..m : got[i] = got[j] => i = j
        /\ \A i \in 1..m : got[i] < changes
        /\ \A i \in 1..m : \A j \in 1..Len(flows) : got[i] = flows[j] => j <= m
        /\ ~removed => m <= Len(flows) /\ \A i \in 1..m : got[i] = flows[i]
    BY <1>2 DEF ReadFlows, m
  <1>9. ASSUME NEW i \in 1..Len(g), NEW j \in 1..Len(g), g[i] = g[j] PROVE i = j
    <2>1. \/ i \in 1..m /\ g[i] = got[i]
          \/ i > m /\ i \in 1..Len(flows) /\ g[i] = flows[i]
      BY <1>6
    <2>2. \/ j \in 1..m /\ g[j] = got[j]
          \/ j > m /\ j \in 1..Len(flows) /\ g[j] = flows[j]
      BY <1>6
    <2>3. \A x \in 1..m : \A y \in 1..Len(flows) : y > m => got[x] # flows[y]
      BY <1>1, <1>8
    <2> QED BY <1>8, <1>9, <2>1, <2>2, <2>3 DEF FlowsInv
  <1>10. ASSUME NEW i \in 1..Len(g) PROVE g[i] < changes
    BY <1>6, <1>8 DEF FlowsInv
  <1>11. ASSUME NEW i \in 1..Len(g), NEW j \in 1..Len(flows), g[i] = flows[j] PROVE j <= Len(g)
    <2>1. CASE i \in 1..m /\ g[i] = got[i]
      <3>1. j <= m BY <1>8, <1>11, <2>1
      <3> QED BY <1>1, <1>7, <3>1
    <2>2. CASE i \in 1..Len(flows) /\ g[i] = flows[i]
      <3>1. i = j BY <1>11, <2>2 DEF FlowsInv
      <3> QED BY <1>7, <3>1
    <2> QED BY <1>6, <2>1, <2>2
  <1>12. ASSUME ~removed PROVE Len(g) <= Len(flows) /\ \A i \in 1..Len(g) : g[i] = flows[i]
    <2>1. Len(g) <= Len(flows) BY <1>1, <1>3, <1>4, <1>5, <1>8, <1>12
    <2>2. \A i \in 1..Len(g) : g[i] = flows[i] BY <1>6, <1>8, <1>12
    <2> QED BY <2>1, <2>2
  <1>13. ASSUME page.code = "ok", ~removed PROVE Len(had) <= Len(g)
    <2>1. Len(had) <= Len(flows) BY <1>13 DEF FlowsInv
    <2> QED BY <1>1, <1>3, <1>4, <1>5, <1>13, <2>1
  <1> QED BY <1>5, <1>9, <1>10, <1>11, <1>12, <1>13 DEF ReadFlows, g, got, items

------------------------------------------------------------------------------
(* Frames *)

\* The controller is where it was, and nothing new is on the wire but its
\* question again.
LEMMA ScanStays ==
    ASSUME TypeInv, ScanInv, UNCHANGED scan,
           wire' \subseteq wire \cup {Question(scan.op, scan.seq, scan.idx)},
           \A g \in Seq(Item) : Readable(g) => Readable(g)',
           \A g \in Seq(Item) : Complete(g) => Complete(g)'
    PROVE  ScanInv'
  <1> SUFFICES ASSUME scan.op # "none"
               PROVE  /\ scan.idx = Len(scan.got) + 1 /\ Readable(scan.got)'
                      /\ \A d \in wire' : d.seq = scan.seq =>
                            /\ d.to = "device" => d.idx = scan.idx
                            /\ d.to = "controller" =>
                                  /\ Readable(scan.got \o d.items)'
                                  /\ d.code = "ok" => Complete(scan.got \o d.items)'
    BY DEF ScanInv
  <1>1. scan.idx = Len(scan.got) + 1 /\ Readable(scan.got)' BY ScanTypes DEF ScanInv
  <1>2. ASSUME NEW d \in wire, d.seq = scan.seq
        PROVE  /\ d.to = "device" => d.idx = scan.idx
               /\ d.to = "controller" =>
                     /\ Readable(scan.got \o d.items)'
                     /\ d.code = "ok" => Complete(scan.got \o d.items)'
    <2>1. d.to = "device" => d.idx = scan.idx BY <1>2 DEF ScanInv
    <2>2. ASSUME d.to = "controller"
          PROVE  /\ Readable(scan.got \o d.items)'
                 /\ d.code = "ok" => Complete(scan.got \o d.items)'
      <3>1. Readable(scan.got \o d.items) /\ (d.code = "ok" => Complete(scan.got \o d.items))
        BY <1>2, <2>2 DEF ScanInv
      <3>2. scan.got \o d.items \in Seq(Item) BY <2>2, ScanTypes, WireTypes, ConcatProperties
      <3> QED BY <3>1, <3>2
    <2> QED BY <2>1, <2>2
  <1>3. ASSUME NEW d, d = Question(scan.op, scan.seq, scan.idx)
        PROVE  d.to = "device" /\ d.idx = scan.idx
    BY <1>3 DEF Question
  <1>4. ASSUME NEW d \in wire', d.seq = scan.seq
        PROVE  /\ d.to = "device" => d.idx = scan.idx
               /\ d.to = "controller" =>
                     /\ Readable(scan.got \o d.items)'
                     /\ d.code = "ok" => Complete(scan.got \o d.items)'
    <2>1. CASE d \in wire BY <1>2, <1>4, <2>1
    <2>2. CASE d = Question(scan.op, scan.seq, scan.idx)
      <3>1. d.to = "device" /\ d.idx = scan.idx BY <1>3, <2>2
      <3> QED BY <3>1
    <2> QED BY <2>1, <2>2
  <1> QED BY <1>1, <1>4

\* What is read and what is complete depend on these.
LEMMA ReadableStays ==
    ASSUME UNCHANGED <<scan, held, flows, changes, removed, had>>
    PROVE  /\ \A g \in Seq(Item) : Readable(g) => Readable(g)'
           /\ \A g \in Seq(Item) : Complete(g) => Complete(g)'
  BY DEF Readable, Complete, ReadChannels, ReadFlows

\* What is under way for a channel stays so.
LEMMA ViewStays ==
    ASSUME HeldInv, ViewIsCurrent, UNCHANGED <<names, view, reading, held, scan>>,
           \A c \in Chan : Pending(c) => Pending(c)'
    PROVE  HeldInv' /\ ViewIsCurrent'
  <1>1. \A c \in Chan : view[c] = names[c] \/ c \in reading \/ Pending(c) BY DEF ViewIsCurrent, Pending
  <1>2. HeldInv' BY DEF HeldInv
  <1>3. \A c \in Chan : view[c] = names[c] \/ c \in reading \/ Pending(c)' BY <1>1
  <1>4. ViewIsCurrent' BY <1>3 DEF ViewIsCurrent, Pending
  <1> QED BY <1>2, <1>4


------------------------------------------------------------------------------
(* Datagrams *)

\* What a question carries.
LEMMA QuestionType ==
    ASSUME NEW op \in {"channels", "flows"}, NEW seq \in Nat, NEW idx \in Nat \ {0}
    PROVE  /\ Question(op, seq, idx) \in Questions /\ Question(op, seq, idx).to = "device"
           /\ Question(op, seq, idx).op = op /\ Question(op, seq, idx).seq = seq
           /\ Question(op, seq, idx).idx = idx
  BY DEF Question, Questions

\* What an answer carries: the number and the opcode of its question.
LEMMA AnswerType ==
    ASSUME NEW q \in Questions, NEW page, page.items \in Seq(Item), page.code \in {"more", "ok"}
    PROVE  /\ Answer(q, page) \in Pages /\ Answer(q, page).to = "controller"
           /\ Answer(q, page).op = q.op /\ Answer(q, page).seq = q.seq
           /\ Answer(q, page).items = page.items /\ Answer(q, page).code = page.code
  BY DEF Answer, Questions, Pages

\* A step that changes nothing but what is on the wire.
LEMMA WireStep ==
    ASSUME ControlInv, UNCHANGED <<device, notices, reader, ghosts>>,
           wire' \subseteq Questions \cup Pages, \A d \in wire' : d.op = reads, ScanInv'
    PROVE  ControlInv'
  <1> USE DEF device, reader, ghosts
  <1>1. TypeInv' BY DEF ControlInv, TypeInv
  <1>2. TableInv' BY DEF ControlInv, TableInv
  <1>3. FlowsInv' BY DEF ControlInv, FlowsInv
  <1>4. \A c \in Chan : Pending(c) => Pending(c)' BY DEF Pending
  <1>5. HeldInv' /\ ViewIsCurrent' BY <1>4, ViewStays DEF ControlInv
  <1> QED BY <1>1, <1>2, <1>3, <1>5 DEF ControlInv

\* A lost datagram only leaves less to take.
LEMMA LoseStep ==
    ASSUME ControlInv, NEW d \in wire, Lose(d)
    PROVE  ControlInv'
  <1> USE DEF device, reader, ghosts
  <1>1. wire' = wire \ {d} /\ UNCHANGED <<device, notices, reader, ghosts>> BY DEF Lose
  <1>2. wire' \subseteq Questions \cup Pages BY <1>1 DEF ControlInv, TypeInv
  <1>3. \A e \in wire' : e.op = reads BY <1>1 DEF ControlInv, TableInv
  <1>4. /\ \A g \in Seq(Item) : Readable(g) => Readable(g)'
        /\ \A g \in Seq(Item) : Complete(g) => Complete(g)'
    BY <1>1, ReadableStays
  <1>5. ScanInv' BY <1>1, <1>4, ScanStays DEF ControlInv
  <1> QED BY <1>1, <1>2, <1>3, <1>5, WireStep

\* The question is asked again under its number: what answers it still fits.
LEMMA RetryStep ==
    ASSUME ControlInv, Retry
    PROVE  ControlInv'
  <1> USE DEF device, reader, ghosts
  <1> DEFINE q == Question(scan.op, scan.seq, scan.idx)
  <1>1. /\ scan.op # "none" /\ wire' = wire \cup {q}
        /\ UNCHANGED <<device, notices, reader, ghosts>>
    BY DEF Retry
  <1>2. q \in Questions /\ q.op = scan.op BY <1>1, ScanTypes, QuestionType DEF ControlInv
  <1>3. /\ \A g \in Seq(Item) : Readable(g) => Readable(g)'
        /\ \A g \in Seq(Item) : Complete(g) => Complete(g)'
    BY <1>1, ReadableStays
  <1>4. ScanInv' BY <1>1, <1>3, ScanStays DEF ControlInv
  <1> HIDE DEF q
  <1>5. wire' \subseteq Questions \cup Pages BY <1>1, <1>2 DEF ControlInv, TypeInv
  <1>6. q.op = reads BY <1>1, <1>2 DEF ControlInv, TableInv
  <1>7. \A e \in wire' : e.op = reads BY <1>1, <1>6 DEF ControlInv, TableInv
  <1> QED BY <1>1, <1>4, <1>5, <1>7, WireStep

\* The server answers the present question with the page that comes next, and
\* an earlier one with a page nobody takes.
LEMMA HandleStep ==
    ASSUME ControlInv, NEW q \in wire, Handle(q)
    PROVE  ControlInv'
  <1> USE DEF device, reader, ghosts
  <1>1. TypeInv /\ TableInv /\ HeldInv /\ FlowsInv /\ ScanInv BY DEF ControlInv
  <1>2. PICK page :
           /\ q.to = "device" /\ Reply(q, page) /\ UNCHANGED <<device, notices, reader, ghosts>>
           /\ \/ q.op = "channels" /\ page = EncodeRxChannels(PaginationStart(q.idx))
              \/ q.op = "flows" /\ page = EncodeRxFlows(PaginationStart(q.idx))
    BY DEF Handle, HandleRxChannels, HandleRxFlows
  <1>3. q \in Questions /\ q.idx \in Nat \ {0} /\ q.op = reads /\ q.seq \in Nat
    BY <1>1, <1>2, WireTypes DEF TableInv
  <1> DEFINE start == PaginationStart(q.idx)
             a == Answer(q, page)
  <1>4. start = q.idx - 1 /\ start \in Nat BY <1>3 DEF PaginationStart
  <1>5. page.items \in Seq(Item) /\ page.code \in {"more", "ok"}
    <2>1. CASE q.op = "channels"
      <3>1. page.items \in Seq(Entry) /\ page.code \in {"more", "ok"} BY <1>1, <1>2, <1>4, <2>1, ChannelPage
      <3> QED BY <3>1, SeqMonotonic DEF Item
    <2>2. CASE q.op = "flows"
      <3>1. page.items \in Seq(Int) /\ page.code \in {"more", "ok"} BY <1>1, <1>2, <1>4, <2>2, FlowPage
      <3> QED BY <3>1, SeqMonotonic DEF Item
    <2> QED BY <1>2, <2>1, <2>2
  <1>6. /\ a \in Pages /\ a.to = "controller" /\ a.op = q.op /\ a.seq = q.seq
        /\ a.items = page.items /\ a.code = page.code
    BY <1>3, <1>5, AnswerType
  <1>7. wire' = (wire \ {q}) \cup {a} BY <1>2 DEF Reply
  <1>8. ASSUME scan.op # "none", q.seq = scan.seq
        PROVE  /\ Readable(scan.got \o a.items)
               /\ a.code = "ok" => Complete(scan.got \o a.items)
    <2>1. q.idx = scan.idx /\ scan.idx = Len(scan.got) + 1 BY <1>1, <1>2, <1>8 DEF ScanInv
    <2>2. start = Len(scan.got) BY <1>1, <1>4, <2>1, ScanTypes
    <2>3. scan.op = q.op BY <1>1, <1>3, <1>8 DEF TableInv
    <2>4. CASE q.op = "channels"
      <3>1. page = EncodeRxChannels(Len(scan.got)) BY <1>2, <2>2, <2>4
      <3>2. /\ ReadChannels(scan.got \o page.items)
            /\ page.code = "ok" => Len(scan.got \o page.items) = NChan
        BY <1>1, <2>3, <2>4, <3>1, NextChannels
      <3> QED BY <1>6, <2>3, <2>4, <3>2 DEF Readable, Complete
    <2>5. CASE q.op = "flows"
      <3>1. page = EncodeRxFlows(Len(scan.got)) BY <1>2, <2>2, <2>5
      <3>2. /\ ReadFlows(scan.got \o page.items)
            /\ page.code = "ok" /\ ~removed => Len(had) <= Len(scan.got \o page.items)
        BY <1>1, <2>3, <2>5, <3>1, NextFlows
      <3> QED BY <1>6, <2>3, <2>5, <3>2 DEF Readable, Complete
    <2> QED BY <1>2, <2>4, <2>5
  <1>9. /\ \A g : Readable(g)' = Readable(g)
        /\ \A g : Complete(g)' = Complete(g)
    BY <1>2 DEF Readable, Complete, ReadChannels, ReadFlows
  <1> HIDE DEF a, start
  <1>10. ScanInv'
    <2> SUFFICES ASSUME scan.op # "none"
                 PROVE  /\ scan.idx = Len(scan.got) + 1 /\ Readable(scan.got)
                        /\ \A d \in wire' : d.seq = scan.seq =>
                              /\ d.to = "device" => d.idx = scan.idx
                              /\ d.to = "controller" => /\ Readable(scan.got \o d.items)
                                                        /\ d.code = "ok" => Complete(scan.got \o d.items)
      BY <1>2, <1>9 DEF ScanInv
    <2>1. scan.idx = Len(scan.got) + 1 /\ Readable(scan.got) BY <1>1 DEF ScanInv
    <2>2. ASSUME NEW d \in wire', d.seq = scan.seq
          PROVE  /\ d.to = "device" => d.idx = scan.idx
                 /\ d.to = "controller" => /\ Readable(scan.got \o d.items)
                                           /\ d.code = "ok" => Complete(scan.got \o d.items)
      <3>1. CASE d \in wire BY <1>1, <2>2, <3>1 DEF ScanInv
      <3>2. CASE d = a BY <1>6, <1>8, <2>2, <3>2
      <3> QED BY <1>7, <3>1, <3>2
    <2> QED BY <2>1, <2>2
  <1>11. wire' \subseteq Questions \cup Pages BY <1>1, <1>6, <1>7 DEF TypeInv
  <1>12. \A d \in wire' : d.op = reads BY <1>1, <1>3, <1>6, <1>7 DEF TableInv
  <1> QED BY <1>2, <1>10, <1>11, <1>12, WireStep

------------------------------------------------------------------------------
(* Changes of the device *)

\* A rename puts the channels it changes under way.
LEMMA RenameStep ==
    ASSUME ControlInv, NEW new \in Renames, RenameRx(new)
    PROVE  ControlInv'
  <1> DEFINE changed == DOMAIN new \cap Chan
  <1>1. TypeInv /\ TableInv /\ HeldInv /\ FlowsInv /\ ScanInv /\ ViewIsCurrent BY DEF ControlInv
  <1>2. /\ reads = "channels" /\ changes' = changes + 1
        /\ names' = [c \in Chan |-> IF c \in changed THEN new[c] ELSE names[c]]
        /\ events' = IF changed = {} THEN events ELSE Append(events, changed)
        /\ held' = [c \in Chan |-> IF scan.op = "channels" THEN held[c] \cup {names'[c]} ELSE {}]
        /\ UNCHANGED <<tx, flows, wire, notices, scan, dirty, reading, view, flowView,
                       reads, missed, had, removed>>
    BY DEF RenameRx, reader
  <1>3. changed \subseteq Chan /\ \A c \in changed : new[c] \in Names
    <2>1. PICK ids \in RenameIds : new \in [ids -> Names] BY DEF Renames
    <2> QED BY <2>1
  <1> HIDE DEF changed
  <1>4. names' \in [Chan -> Names] /\ \A c \in Chan : names'[c] = names[c] \/ c \in changed
    BY <1>1, <1>2, <1>3 DEF TypeInv
  <1>5. /\ events \in Seq(SUBSET Chan) /\ Len(events) \in Nat /\ changes \in Nat
        /\ flows \in Seq(Int) /\ Len(flows) \in Nat
    BY <1>1, ScanTypes
  <1>6. /\ events' \in Seq(SUBSET Chan)
        /\ \A i \in 1..Len(events) : i \in 1..Len(events') /\ events'[i] = events[i]
        /\ changed # {} => \E i \in 1..Len(events') : events'[i] = changed
    <2>1. CASE changed = {} BY <1>2, <1>5, <2>1
    <2>2. CASE changed # {}
      <3>1. events' = Append(events, changed) BY <1>2, <2>2
      <3>2. /\ Append(events, changed) \in Seq(SUBSET Chan)
            /\ Len(Append(events, changed)) = Len(events) + 1
            /\ Append(events, changed)[Len(events) + 1] = changed
            /\ \A i \in 1..Len(events) : Append(events, changed)[i] = events[i]
        BY <1>3, <1>5, AppendProperties
      <3>3. Len(events) + 1 \in 1..Len(events') BY <1>5, <3>1, <3>2
      <3>4. \A i \in 1..Len(events) : i \in 1..Len(events') BY <1>5, <3>1, <3>2
      <3> QED BY <3>1, <3>2, <3>3, <3>4
    <2> QED BY <2>1, <2>2
  <1>7. \A c \in Chan : Pending(c) => Pending(c)' BY <1>2, <1>6 DEF Pending
  <1>8. \A c \in changed : Pending(c)' BY <1>6 DEF Pending
  <1>9. held' \in [Chan -> SUBSET Names] BY <1>1, <1>2, <1>4 DEF TypeInv
  <1>10. TypeInv' BY <1>1, <1>2, <1>4, <1>5, <1>6, <1>9 DEF TypeInv
  <1>11. TableInv' BY <1>1, <1>2 DEF TableInv
  <1>12. HeldInv'
    <2>1. scan'.op = "channels" => \A c \in Chan : names'[c] \in held'[c] BY <1>2
    <2>2. ASSUME NEW c \in Chan, NEW nm \in held'[c] PROVE nm = names'[c] \/ Pending(c)'
      <3>1. nm \in held[c] \/ nm = names'[c] BY <1>2, <2>2
      <3>2. CASE nm \in held[c]
        <4>1. nm = names[c] \/ Pending(c) BY <1>1, <3>2 DEF HeldInv
        <4> QED BY <1>4, <1>7, <1>8, <4>1
      <3> QED BY <3>1, <3>2
    <2> QED BY <2>1, <2>2 DEF HeldInv
  <1>13. FlowsInv' BY <1>1, <1>2, <1>5 DEF FlowsInv, TableInv
  <1>14. ScanInv'
    <2>1. scan.op # "flows" BY <1>1, <1>2 DEF TableInv
    <2>2. ASSUME NEW g \in Seq(Item), Readable(g) PROVE Readable(g)'
      <3>1. ASSUME scan.op = "channels" PROVE ReadChannels(g)'
        <4>1. Len(g) <= NChan /\ \A i \in 1..Len(g) : g[i].id = i /\ g[i].name \in held[i]
          BY <2>2, <3>1 DEF Readable, ReadChannels
        <4>2. Len(g) \in Nat /\ NChan \in Nat BY LenProperties, ControlAssumption
        <4>3. \A i \in 1..Len(g) : i \in Chan BY <4>1, <4>2 DEF Chan
        <4>4. \A i \in 1..Len(g) : g[i].name \in held'[i] BY <1>2, <3>1, <4>1, <4>3
        <4> QED BY <4>1, <4>4 DEF ReadChannels
      <3> QED BY <1>2, <2>1, <3>1 DEF Readable
    <2>3. \A g \in Seq(Item) : Complete(g) => Complete(g)' BY <1>2 DEF Complete
    <2> QED BY <1>1, <1>2, <2>2, <2>3, ScanStays
  <1>15. ViewIsCurrent'
    <2>1. \A c \in Chan : view[c] = names[c] \/ c \in reading \/ Pending(c)
      BY <1>1 DEF ViewIsCurrent, Pending
    <2>2. \A c \in Chan : view'[c] = names'[c] \/ c \in reading' \/ Pending(c)'
      BY <1>2, <1>4, <1>7, <1>8, <2>1
    <2> QED BY <2>2 DEF ViewIsCurrent, Pending
  <1> QED BY <1>10, <1>11, <1>12, <1>13, <1>14, <1>15 DEF ControlInv

\* A subscription changes the size of an entry and nothing a controller keeps.
LEMMA SetTxStep ==
    ASSUME ControlInv, NEW c \in Chan, SetTx(c)
    PROVE  ControlInv'
  <1>1. TypeInv /\ TableInv /\ HeldInv /\ FlowsInv /\ ScanInv /\ ViewIsCurrent BY DEF ControlInv
  <1>2. /\ reads = "channels" /\ changes' = changes + 1 /\ tx' = [tx EXCEPT ![c] = ~@]
        /\ UNCHANGED <<names, flows, events, wire, notices, scan, dirty, reading, view, flowView,
                       reads, missed, held, had, removed>>
    BY DEF SetTx, reader, ghosts
  <1>3. flows \in Seq(Int) /\ Len(flows) \in Nat /\ changes \in Nat BY <1>1, ScanTypes
  <1>4. tx' \in [Chan -> BOOLEAN]
    <2>1. tx \in [Chan -> BOOLEAN] BY <1>1 DEF TypeInv
    <2> QED BY <1>2, <2>1, Zenon
  <1>5. TypeInv' BY <1>1, <1>2, <1>3, <1>4 DEF TypeInv
  <1>6. TableInv' BY <1>1, <1>2 DEF TableInv
  <1>7. FlowsInv' BY <1>1, <1>2, <1>3 DEF FlowsInv, TableInv
  <1>8. \A x \in Chan : Pending(x) => Pending(x)' BY <1>2 DEF Pending
  <1>9. HeldInv' /\ ViewIsCurrent' BY <1>1, <1>2, <1>8, ViewStays
  <1>10. scan.op # "flows" BY <1>1, <1>2 DEF TableInv
  <1>11. /\ \A g \in Seq(Item) : Readable(g) => Readable(g)'
         /\ \A g \in Seq(Item) : Complete(g) => Complete(g)'
    BY <1>2, <1>10 DEF Readable, Complete, ReadChannels
  <1>12. ScanInv' BY <1>1, <1>2, <1>11, ScanStays
  <1> QED BY <1>5, <1>6, <1>7, <1>9, <1>12 DEF ControlInv

\* A flow is pushed behind the others, under an id nobody has read.
LEMMA PushStep ==
    ASSUME ControlInv, PushFlow
    PROVE  ControlInv'
  <1>1. TypeInv /\ TableInv /\ HeldInv /\ FlowsInv /\ ScanInv /\ ViewIsCurrent BY DEF ControlInv
  <1>2. /\ reads = "flows" /\ changes' = changes + 1 /\ flows' = Append(flows, changes)
        /\ UNCHANGED <<names, tx, events, wire, notices, scan, dirty, reading, view, flowView,
                       reads, missed, held, had, removed>>
    BY DEF PushFlow, reader, ghosts
  <1> DEFINE n == Len(flows)
  <1>3. flows \in Seq(Int) /\ n \in Nat /\ changes \in Nat /\ Len(had) \in Nat BY <1>1, ScanTypes
  <1>4. /\ flows' \in Seq(Int) /\ Len(flows') = n + 1 /\ flows'[n + 1] = changes
        /\ \A i \in 1..n : flows'[i] = flows[i] /\ flows'[i] < changes
    <2>1. flows' \in Seq(Int) /\ Len(flows') = n + 1 /\ flows'[n + 1] = changes
          /\ \A i \in 1..n : flows'[i] = flows[i]
      BY <1>2, <1>3, AppendProperties
    <2> QED BY <1>1, <2>1 DEF FlowsInv
  <1>5. \A i \in 1..n + 1 : i \in 1..n \/ i = n + 1 BY <1>3
  <1>6. TypeInv' BY <1>1, <1>2, <1>3, <1>4 DEF TypeInv
  <1>7. TableInv' BY <1>1, <1>2 DEF TableInv
  <1>8. \A i \in 1..n : flows[i] \in Int /\ flows[i] < changes BY <1>1, <1>3 DEF FlowsInv
  <1> HIDE DEF n
  <1>9. FlowsInv'
    <2>1. ASSUME NEW i \in 1..n + 1, NEW j \in 1..n + 1, flows'[i] = flows'[j] PROVE i = j
      <3>1. CASE i \in 1..n /\ j \in 1..n BY <1>1, <1>4, <2>1, <3>1 DEF FlowsInv, n
      <3>2. CASE i \in 1..n /\ j = n + 1 BY <1>3, <1>4, <1>8, <2>1, <3>2
      <3>3. CASE i = n + 1 /\ j \in 1..n BY <1>3, <1>4, <1>8, <2>1, <3>3
      <3> QED BY <1>5, <3>1, <3>2, <3>3
    <2>2. \A i \in 1..n + 1 : flows'[i] < changes'
      <3> TAKE i \in 1..n + 1
      <3>1. CASE i \in 1..n BY <1>2, <1>3, <1>4, <1>8, <3>1
      <3>2. CASE i = n + 1 BY <1>2, <1>3, <1>4, <3>2
      <3> QED BY <1>5, <3>1, <3>2
    <2>3. ASSUME scan.op = "flows", ~removed
          PROVE  Len(had) <= n + 1 /\ \A i \in 1..Len(had) : had[i] = flows'[i]
      <3>1. Len(had) <= n /\ \A i \in 1..Len(had) : had[i] = flows[i] BY <1>1, <2>3 DEF FlowsInv, n
      <3> QED BY <1>3, <1>4, <3>1
    <2> QED BY <1>2, <1>4, <2>1, <2>2, <2>3 DEF FlowsInv
  <1>10. \A c \in Chan : Pending(c) => Pending(c)' BY <1>2 DEF Pending
  <1>11. HeldInv' /\ ViewIsCurrent' BY <1>1, <1>2, <1>10, ViewStays
  <1>12. ASSUME NEW g, ReadFlows(g) PROVE ReadFlows(g)'
    <2>1. /\ g \in Seq(Int) /\ \A i, j \in 1..Len(g) : g[i] = g[j] => i = j
          /\ \A i \in 1..Len(g) : g[i] < changes
          /\ \A i \in 1..Len(g) : \A j \in 1..n : g[i] = flows[j] => j <= Len(g)
          /\ ~removed => Len(g) <= n /\ \A i \in 1..Len(g) : g[i] = flows[i]
      BY <1>12 DEF ReadFlows, n
    <2>2. Len(g) \in Nat /\ \A i \in 1..Len(g) : g[i] \in Int BY <2>1, LenProperties, ElementOfSeq
    <2>3. \A i \in 1..Len(g) : g[i] < changes' BY <1>2, <1>3, <2>1, <2>2
    <2>4. ASSUME NEW i \in 1..Len(g), NEW j \in 1..n + 1, g[i] = flows'[j] PROVE j <= Len(g)
      <3>1. CASE j \in 1..n BY <1>4, <2>1, <2>4, <3>1
      <3>2. CASE j = n + 1 BY <1>3, <1>4, <2>1, <2>2, <2>4, <3>2
      <3> QED BY <1>5, <3>1, <3>2
    <2>5. ASSUME ~removed PROVE Len(g) <= n + 1 /\ \A i \in 1..Len(g) : g[i] = flows'[i]
      <3>1. Len(g) <= n BY <2>1, <2>5
      <3> QED BY <1>3, <1>4, <2>1, <2>2, <2>5, <3>1
    <2> QED BY <1>2, <1>4, <2>1, <2>3, <2>4, <2>5 DEF ReadFlows
  <1>13. ASSUME NEW g \in Seq(Item), Readable(g) PROVE Readable(g)'
    <2>1. scan.op = "flows" => ReadFlows(g) BY <1>13 DEF Readable
    <2>2. scan'.op = "flows" => ReadFlows(g)' BY <1>2, <1>12, <2>1
    <2>3. scan'.op # "channels" BY <1>1, <1>2 DEF TableInv
    <2> QED BY <2>2, <2>3 DEF Readable
  <1>14. \A g \in Seq(Item) : Complete(g) => Complete(g)' BY <1>2 DEF Complete
  <1>15. ScanInv' BY <1>1, <1>2, <1>13, <1>14, ScanStays
  <1> QED BY <1>6, <1>7, <1>9, <1>11, <1>15 DEF ControlInv

\* An element is taken out and those behind it move up.
LEMMA RemoveOne ==
    ASSUME NEW s \in Seq(Int), NEW k \in 1..Len(s)
    PROVE  /\ RemoveAt(s, k) \in Seq(Int) /\ Len(RemoveAt(s, k)) = Len(s) - 1
           /\ \A j \in 1..Len(s) - 1 : RemoveAt(s, k)[j] = s[IF j < k THEN j ELSE j + 1]
  <1> DEFINE n == Len(s)
             a == SubSeq(s, 1, k - 1)
             b == SubSeq(s, k + 1, n)
  <1>1. n \in Nat /\ k \in Int /\ 1 <= k /\ k <= n BY LenProperties
  <1>2. a \in Seq(Int) /\ Len(a) = k - 1 /\ \A j \in 1..k - 1 : a[j] = s[j] BY <1>1
  <1>3. b \in Seq(Int) /\ Len(b) = n - k /\ \A j \in 1..n - k : b[j] = s[k + j] BY <1>1
  <1> HIDE DEF a, b
  <1>4. /\ a \o b \in Seq(Int) /\ Len(a \o b) = Len(a) + Len(b)
        /\ \A j \in 1..Len(a) + Len(b) : (a \o b)[j] = IF j <= Len(a) THEN a[j] ELSE b[j - Len(a)]
    BY <1>2, <1>3, ConcatProperties
  <1>5. RemoveAt(s, k) = a \o b BY DEF RemoveAt, a, b
  <1> HIDE DEF n
  <1>6. Len(a) + Len(b) = n - 1 BY <1>1, <1>2, <1>3
  <1>7. ASSUME NEW j \in 1..n - 1 PROVE (a \o b)[j] = s[IF j < k THEN j ELSE j + 1]
    <2>1. CASE j < k BY <1>1, <1>2, <1>4, <1>6, <2>1
    <2>2. CASE j >= k
      <3>1. j - (k - 1) \in 1..n - k /\ k + (j - (k - 1)) = j + 1 BY <1>1, <2>2
      <3>2. (a \o b)[j] = b[j - (k - 1)]
        <4>1. j \in 1..Len(a) + Len(b) /\ ~(j <= Len(a)) BY <1>1, <1>2, <1>6, <2>2
        <4>2. (a \o b)[j] = b[j - Len(a)] BY <1>4, <4>1
        <4> QED BY <1>2, <4>2
      <3>3. b[j - (k - 1)] = s[j + 1] BY <1>3, <3>1
      <3>4. ~(j < k) BY <1>1, <2>2
      <3> QED BY <3>2, <3>3, <3>4
    <2>3. j < k \/ j >= k BY <1>1
    <2> QED BY <2>1, <2>2, <2>3, Zenon
  <1> QED BY <1>4, <1>5, <1>6, <1>7 DEF n

\* A flow is taken out: none of those still ahead comes to be behind.
LEMMA RemoveStep ==
    ASSUME ControlInv, NEW k \in 1..Len(flows), RemoveFlow(k)
    PROVE  ControlInv'
  <1>1. TypeInv /\ TableInv /\ HeldInv /\ FlowsInv /\ ScanInv /\ ViewIsCurrent BY DEF ControlInv
  <1>2. /\ reads = "flows" /\ changes' = changes + 1 /\ flows' = RemoveAt(flows, k)
        /\ removed' = (scan.op = "flows")
        /\ UNCHANGED <<names, tx, events, wire, notices, scan, dirty, reading, view, flowView,
                       reads, missed, held, had>>
    BY DEF RemoveFlow, reader
  <1> DEFINE n == Len(flows)
             at(j) == IF j < k THEN j ELSE j + 1
  <1>3. flows \in Seq(Int) /\ n \in Nat /\ changes \in Nat /\ k \in 1..n BY <1>1, ScanTypes
  <1>4. flows' \in Seq(Int) /\ Len(flows') = n - 1 /\ \A j \in 1..n - 1 : flows'[j] = flows[at(j)]
    BY <1>2, <1>3, RemoveOne
  <1>5. /\ \A j \in 1..n - 1 : at(j) \in 1..n /\ j <= at(j)
        /\ \A i, j \in 1..n - 1 : at(i) = at(j) => i = j
    BY <1>3
  <1>6. \A j \in 1..n : flows[j] \in Int /\ flows[j] < changes BY <1>1, <1>3 DEF FlowsInv
  <1> HIDE DEF n, at
  <1>7. TypeInv' BY <1>1, <1>2, <1>3, <1>4 DEF TypeInv
  <1>8. TableInv' BY <1>1, <1>2 DEF TableInv
  <1>9. FlowsInv'
    <2>1. ASSUME NEW i \in 1..n - 1, NEW j \in 1..n - 1, flows'[i] = flows'[j] PROVE i = j
      <3>1. flows[at(i)] = flows[at(j)] /\ at(i) \in 1..n /\ at(j) \in 1..n BY <1>4, <1>5, <2>1
      <3>2. at(i) = at(j) BY <1>1, <3>1 DEF FlowsInv, n
      <3> QED BY <1>5, <3>2
    <2>2. ASSUME NEW j \in 1..n - 1 PROVE flows'[j] < changes'
      <3>1. flows'[j] = flows[at(j)] /\ at(j) \in 1..n BY <1>4, <1>5
      <3>2. flows'[j] \in Int /\ flows'[j] < changes BY <1>6, <3>1
      <3> QED BY <1>2, <1>3, <3>2
    <2>3. ~(scan'.op = "flows" /\ ~removed') BY <1>2
    <2> QED BY <1>4, <2>1, <2>2, <2>3 DEF FlowsInv
  <1>10. \A c \in Chan : Pending(c) => Pending(c)' BY <1>2 DEF Pending
  <1>11. HeldInv' /\ ViewIsCurrent' BY <1>1, <1>2, <1>10, ViewStays
  <1>12. ASSUME NEW g, ReadFlows(g), scan.op = "flows" PROVE ReadFlows(g)'
    <2>1. /\ g \in Seq(Int) /\ \A i, j \in 1..Len(g) : g[i] = g[j] => i = j
          /\ \A i \in 1..Len(g) : g[i] < changes
          /\ \A i \in 1..Len(g) : \A j \in 1..n : g[i] = flows[j] => j <= Len(g)
      BY <1>12 DEF ReadFlows, n
    <2>2. Len(g) \in Nat /\ \A i \in 1..Len(g) : g[i] \in Int BY <2>1, LenProperties, ElementOfSeq
    <2>3. \A i \in 1..Len(g) : g[i] < changes' BY <1>2, <1>3, <2>1, <2>2
    <2>4. ASSUME NEW i \in 1..Len(g), NEW j \in 1..n - 1, g[i] = flows'[j] PROVE j <= Len(g)
      <3>1. g[i] = flows[at(j)] /\ at(j) \in 1..n /\ j <= at(j) BY <1>4, <1>5, <2>4
      <3>2. at(j) <= Len(g) BY <2>1, <3>1
      <3> QED BY <1>3, <2>2, <3>1, <3>2
    <2>5. removed' BY <1>2, <1>12
    <2> QED BY <1>2, <1>4, <2>1, <2>3, <2>4, <2>5 DEF ReadFlows
  <1>13. ASSUME NEW g \in Seq(Item), Readable(g) PROVE Readable(g)'
    <2>1. scan'.op = "flows" => ReadFlows(g)' BY <1>2, <1>12, <1>13 DEF Readable
    <2>2. scan'.op # "channels" BY <1>1, <1>2 DEF TableInv
    <2> QED BY <2>1, <2>2 DEF Readable
  <1>14. \A g \in Seq(Item) : Complete(g) => Complete(g)' BY <1>2 DEF Complete
  <1>15. ScanInv' BY <1>1, <1>2, <1>13, <1>14, ScanStays
  <1> QED BY <1>7, <1>8, <1>9, <1>11, <1>15 DEF ControlInv

------------------------------------------------------------------------------
(* Masks *)

\* A step after which as much is under way for a controller as before.
LEMMA NoticeStep ==
    ASSUME ControlInv, \A c \in Chan : Pending(c) => Pending(c)', events' \in Seq(SUBSET Chan),
           UNCHANGED <<names, tx, flows, changes, wire, scan, reading, view, flowView,
                       reads, held, had, removed>>
    PROVE  ControlInv'
  <1>1. TypeInv' BY DEF ControlInv, TypeInv
  <1>2. TableInv' BY DEF ControlInv, TableInv
  <1>3. FlowsInv' BY DEF ControlInv, FlowsInv
  <1>4. HeldInv' /\ ViewIsCurrent' BY ViewStays DEF ControlInv
  <1>5. /\ \A g \in Seq(Item) : Readable(g) => Readable(g)'
        /\ \A g \in Seq(Item) : Complete(g) => Complete(g)'
    BY ReadableStays
  <1>6. ScanInv' BY <1>5, ScanStays DEF ControlInv
  <1> QED BY <1>1, <1>2, <1>3, <1>4, <1>6 DEF ControlInv

\* An event becomes a mask that names its channels.
LEMMA SendStep ==
    ASSUME ControlInv, SendChannelChange
    PROVE  ControlInv'
  <1>1. /\ events # <<>> /\ notices' = notices \cup {ChannelChange(Head(events))}
        /\ events' = Tail(events)
        /\ UNCHANGED <<names, tx, flows, changes, wire, scan, dirty, reading, view, flowView,
                       reads, missed, held, had, removed>>
    BY DEF SendChannelChange, reader, ghosts
  <1>2. events \in Seq(SUBSET Chan) /\ Len(events) \in Nat BY ScanTypes DEF ControlInv
  <1>3. /\ Head(events) = events[1] /\ Head(events) \in SUBSET Chan /\ events' \in Seq(SUBSET Chan)
        /\ Len(events') = Len(events) - 1
        /\ \A i \in 1..Len(events) - 1 : events'[i] = events[i + 1]
    BY <1>1, <1>2, HeadTailProperties
  <1>4. ASSUME NEW c \in Chan, Pending(c) PROVE Pending(c)'
    <2>1. CASE c \in dirty \cup missed BY <1>1, <2>1 DEF Pending
    <2>2. ASSUME NEW i \in 1..Len(events), c \in events[i] PROVE Pending(c)'
      <3>1. CASE i = 1
        <4>1. c \in Marked(ChannelChange(Head(events))) BY <1>3, <2>2, <3>1, MaskNames
        <4> QED BY <1>1, <4>1 DEF Pending
      <3>2. CASE i # 1
        <4>1. i - 1 \in 1..Len(events) - 1 /\ (i - 1) + 1 = i BY <1>2, <3>2
        <4>2. events'[i - 1] = events[i] /\ i - 1 \in 1..Len(events') BY <1>3, <4>1
        <4> QED BY <2>2, <4>2 DEF Pending
      <3> QED BY <3>1, <3>2
    <2>3. ASSUME NEW mask \in notices, c \in Marked(mask) PROVE Pending(c)'
      BY <1>1, <2>3 DEF Pending
    <2> QED BY <1>4, <2>1, <2>2, <2>3 DEF Pending
  <1> QED BY <1>1, <1>3, <1>4, NoticeStep

\* A mask that arrives makes its channels dirty.
LEMMA TakeNoticeStep ==
    ASSUME ControlInv, NEW mask \in notices, TakeNotice(mask)
    PROVE  ControlInv'
  <1>1. /\ dirty' = dirty \cup Marked(mask) /\ notices' = notices \ {mask}
        /\ UNCHANGED <<names, tx, flows, events, changes, wire, scan, reading, view, flowView,
                       reads, missed, held, had, removed>>
    BY DEF TakeNotice, device, ghosts
  <1>2. \A c \in Chan : Pending(c) => Pending(c)' BY <1>1 DEF Pending
  <1>3. events' \in Seq(SUBSET Chan) BY <1>1 DEF ControlInv, TypeInv
  <1> QED BY <1>1, <1>2, <1>3, NoticeStep

\* A mask that is lost is known to be missed.
LEMMA LoseNoticeStep ==
    ASSUME ControlInv, NEW mask \in notices, LoseNotice(mask)
    PROVE  ControlInv'
  <1>1. /\ missed' = missed \cup Marked(mask) /\ notices' = notices \ {mask}
        /\ UNCHANGED <<names, tx, flows, events, changes, wire, scan, dirty, reading, view, flowView,
                       reads, held, had, removed>>
    BY DEF LoseNotice, device, reader
  <1>2. \A c \in Chan : Pending(c) => Pending(c)' BY <1>1 DEF Pending
  <1>3. events' \in Seq(SUBSET Chan) BY <1>1 DEF ControlInv, TypeInv
  <1> QED BY <1>1, <1>2, <1>3, NoticeStep

------------------------------------------------------------------------------
(* The controller *)

\* A new question: none of its number is in flight but itself.
LEMMA AskStep ==
    ASSUME TypeInv, TableInv, NEW op \in {"channels", "flows"}, op = reads, NEW idx \in Nat \ {0},
           NEW got \in Seq(Item), idx = Len(got) + 1, Ask(op, idx, got), UNCHANGED reads
    PROVE  /\ wire' \subseteq Questions \cup Pages /\ \A d \in wire' : d.op = reads'
           /\ scan' \in [op: {"none", "channels", "flows"}, seq: Nat, idx: Nat \ {0}, got: Seq(Item)]
           /\ scan'.op = op /\ scan'.got = got
           /\ Readable(got)' => ScanInv'
  <1> DEFINE seq == (scan.seq + 1) % NumMod
             q == Question(op, seq, idx)
  <1>1. /\ scan' = [op |-> op, seq |-> seq, idx |-> idx, got |-> got]
        /\ wire' = {d \in wire : d.to = "device" /\ d.seq # seq} \cup {q}
    BY DEF Ask
  <1>2. seq \in Nat
    <2>1. NumMod \in Int /\ NumMod > 0 BY ControlAssumption
    <2>2. scan.seq + 1 \in Int BY ScanTypes
    <2> DEFINE x == scan.seq + 1
    <2> HIDE DEF x
    <2>3. x \in Int BY <2>2 DEF x
    <2>4. x % NumMod \in 0..NumMod - 1 BY <2>1, <2>3, Quotient
    <2>5. x % NumMod \in Nat BY <2>1, <2>4
    <2> QED BY <2>5 DEF x
  <1> HIDE DEF seq
  <1>3. q \in Questions /\ q.to = "device" /\ q.op = op /\ q.seq = seq /\ q.idx = idx
    BY <1>2, QuestionType
  <1> HIDE DEF q
  <1>4. wire' \subseteq Questions \cup Pages BY <1>1, <1>3 DEF TypeInv
  <1>5. \A d \in wire' : d.op = reads' BY <1>1, <1>3 DEF TableInv
  <1>6. scan'.op = op /\ scan'.got = got /\ scan'.seq = seq /\ scan'.idx = idx BY <1>1
  <1>7. scan' \in [op: {"none", "channels", "flows"}, seq: Nat, idx: Nat \ {0}, got: Seq(Item)]
    BY <1>1, <1>2
  <1>8. ASSUME NEW d \in wire', d.seq = seq PROVE d.to = "device" /\ d.idx = idx
    BY <1>1, <1>3, <1>8
  <1>9. ASSUME Readable(got)' PROVE ScanInv'
    <2>1. scan'.idx = Len(scan'.got) + 1 /\ Readable(scan.got)'
      BY <1>6, <1>9 DEF Readable, ReadChannels, ReadFlows
    <2>2. ASSUME NEW d \in wire', d.seq = scan'.seq PROVE d.to = "device" /\ d.idx = scan'.idx
      BY <1>6, <1>8, <2>2
    <2>3. "device" # "controller" OBVIOUS
    <2> QED BY <2>1, <2>2, <2>3 DEF ScanInv
  <1> QED BY <1>4, <1>5, <1>6, <1>7, <1>9

\* A scan begins with nothing read; the channels that were dirty are read.
LEMMA StartStep ==
    ASSUME ControlInv, NEW op \in {"channels", "flows"}, StartScan(op)
    PROVE  ControlInv'
  <1>1. TypeInv /\ TableInv /\ HeldInv /\ FlowsInv /\ ScanInv /\ ViewIsCurrent BY DEF ControlInv
  <1>2. /\ scan.op = "none" /\ op = reads /\ Ask(op, 1, <<>>)
        /\ \/ op = "channels" /\ reading' = dirty /\ dirty' = {}
           \/ op = "flows" /\ UNCHANGED <<reading, dirty>>
        /\ held' = [c \in Chan |-> IF op = "channels" THEN {names[c]} ELSE {}]
        /\ had' = IF op = "flows" THEN flows ELSE <<>>
        /\ removed' = FALSE
        /\ UNCHANGED <<names, tx, flows, events, changes, notices, view, flowView, reads, missed>>
    BY DEF StartScan, device
  <1>3. <<>> \in Seq(Item) /\ Len(<<>>) = 0 /\ 1 \in Nat \ {0} /\ 1 = Len(<<>>) + 1 BY EmptySeq
  <1>4. /\ wire' \subseteq Questions \cup Pages /\ \A d \in wire' : d.op = reads'
        /\ scan' \in [op: {"none", "channels", "flows"}, seq: Nat, idx: Nat \ {0}, got: Seq(Item)]
        /\ scan'.op = op
        /\ Readable(<<>>)' => ScanInv'
    BY <1>1, <1>2, <1>3, AskStep
  <1>5. flows \in Seq(Int) /\ Len(flows) \in Nat /\ NChan \in Nat BY <1>1, ScanTypes
  <1>6. ScanInv'
    <2>1. ReadChannels(<<>>)' BY <1>3, <1>5 DEF ReadChannels
    <2>2. ReadFlows(<<>>)' BY <1>2, <1>3, <1>5, EmptySeq DEF ReadFlows
    <2> QED BY <1>4, <2>1, <2>2 DEF Readable
  <1>7. held' \in [Chan -> SUBSET Names] BY <1>1, <1>2 DEF TypeInv
  <1>8. had' \in Seq(Int) BY <1>2, <1>5, EmptySeq
  <1>9. TypeInv' BY <1>1, <1>2, <1>4, <1>7, <1>8 DEF TypeInv
  <1>10. reading = {} BY <1>1, <1>2 DEF TableInv
  <1>11. TableInv' BY <1>2, <1>4, <1>10 DEF TableInv
  <1>12. HeldInv' BY <1>2, <1>4 DEF HeldInv
  <1>13. FlowsInv' BY <1>1, <1>2, <1>4, <1>5 DEF FlowsInv
  <1>14. ViewIsCurrent' BY <1>1, <1>2, <1>10 DEF ViewIsCurrent
  <1> QED BY <1>6, <1>9, <1>11, <1>12, <1>13, <1>14 DEF ControlInv

\* A page is taken: the scan goes on behind it, or what it has read is shown.
LEMMA TakePageStep ==
    ASSUME ControlInv, NEW d \in wire, TakePage(d)
    PROVE  ControlInv'
  <1>1. TypeInv /\ TableInv /\ HeldInv /\ FlowsInv /\ ScanInv /\ ViewIsCurrent BY DEF ControlInv
  <1> PICK got : got = scan.got \o d.items OBVIOUS
  <1>2. /\ d.to = "controller" /\ scan.op = d.op /\ scan.seq = d.seq
        /\ UNCHANGED <<names, tx, flows, events, changes, notices, dirty, reads, missed>>
    BY DEF TakePage, device
  <1>3. /\ scan.got \in Seq(Item) /\ Len(scan.got) \in Nat /\ scan.idx \in Nat \ {0} /\ NChan \in Nat
        /\ flows \in Seq(Int) /\ Len(flows) \in Nat
    BY <1>1, ScanTypes
  <1>4. d.items \in Seq(Item) /\ Len(d.items) \in Nat BY <1>1, <1>2, WireTypes
  <1>5. scan.op = reads /\ scan.op \in {"channels", "flows"} BY <1>1, <1>2 DEF TableInv, TypeInv
  <1>6. /\ scan.idx = Len(scan.got) + 1 /\ Readable(got)
        /\ d.code = "ok" => Complete(got)
    BY <1>1, <1>2, <1>5 DEF ScanInv
  <1>7. got \in Seq(Item) /\ Len(got) = Len(scan.got) + Len(d.items) BY <1>3, <1>4, ConcatProperties
  <1>8. CASE /\ d.code = "more" /\ Ask(scan.op, scan.idx + Len(d.items), got)
             /\ UNCHANGED <<reading, view, flowView, held, had, removed>>
    <2> PICK idx : idx = scan.idx + Len(d.items) OBVIOUS
    <2>1. idx \in Nat \ {0} /\ idx = Len(got) + 1
      <3> DEFINE m == Len(scan.got)
                 k == Len(d.items)
                 i == scan.idx
      <3>1. m \in Nat /\ k \in Nat /\ i = m + 1 /\ Len(got) = m + k /\ idx = i + k
        BY <1>3, <1>4, <1>6, <1>7
      <3> HIDE DEF m, k, i
      <3> QED BY ONLY <3>1
    <2>2. PICK op : op = scan.op /\ Ask(op, idx, got) BY <1>8
    <2>3. /\ wire' \subseteq Questions \cup Pages /\ \A e \in wire' : e.op = reads'
          /\ scan' \in [op: {"none", "channels", "flows"}, seq: Nat, idx: Nat \ {0}, got: Seq(Item)]
          /\ scan'.op = scan.op
          /\ Readable(got)' => ScanInv'
      BY <1>1, <1>2, <1>5, <1>7, <2>1, <2>2, AskStep
    <2>4. Readable(got)' BY <1>2, <1>6, <1>8, <2>3 DEF Readable, ReadChannels, ReadFlows
    <2>5. TypeInv' BY <1>1, <1>2, <1>8, <2>3 DEF TypeInv
    <2>6. TableInv' BY <1>1, <1>2, <1>8, <2>3 DEF TableInv
    <2>7. HeldInv' BY <1>1, <1>2, <1>8, <2>3 DEF HeldInv, Pending
    <2>8. FlowsInv' BY <1>1, <1>2, <1>8, <2>3 DEF FlowsInv
    <2>9. ViewIsCurrent' BY <1>1, <1>2, <1>8 DEF ViewIsCurrent
    <2> QED BY <2>3, <2>4, <2>5, <2>6, <2>7, <2>8, <2>9 DEF ControlInv
  <1>9. CASE /\ d.code = "ok"
             /\ scan' = [scan EXCEPT !.op = "none", !.idx = 1, !.got = <<>>]
             /\ wire' = wire \ {d} /\ reading' = {}
             /\ view' = [c \in Chan |-> IF c \in reading /\ c \in 1..Len(got)
                                        THEN got[c].name ELSE view[c]]
             /\ held' = [c \in Chan |-> {}] /\ had' = <<>> /\ removed' = FALSE
    <2>1. scan' = [op |-> "none", seq |-> scan.seq, idx |-> 1, got |-> <<>>] /\ scan'.op = "none"
      BY <1>1, <1>9 DEF TypeInv
    <2>2. scan' \in [op: {"none", "channels", "flows"}, seq: Nat, idx: Nat \ {0}, got: Seq(Item)]
      BY <1>1, <2>1, ScanTypes, EmptySeq
    <2>3. ASSUME NEW c \in Chan, c \in reading
          PROVE  /\ view'[c] \in Names \cup {NoName}
                 /\ view'[c] = names[c] \/ Pending(c)
      <3>1. scan.op = "channels" BY <1>1, <2>3 DEF TableInv
      <3>2. Len(got) = NChan /\ \A i \in 1..Len(got) : got[i].name \in held[i]
        BY <1>6, <1>9, <3>1 DEF Readable, Complete, ReadChannels
      <3>3. c \in 1..Len(got) /\ view'[c] \in held[c] BY <1>9, <2>3, <3>2 DEF Chan
      <3> QED BY <1>1, <3>3 DEF HeldInv, TypeInv
    <2>4. \A c \in Chan : c \notin reading => view'[c] = view[c] BY <1>9
    <2>5. view' \in [Chan -> Names \cup {NoName}]
      <3>1. \A c \in Chan : view'[c] \in Names \cup {NoName} BY <1>1, <2>3, <2>4 DEF TypeInv
      <3> QED BY <1>9, <3>1
    <2>6. TypeInv' BY <1>1, <1>2, <1>9, <2>2, <2>5, EmptySeq DEF TypeInv
    <2>7. TableInv' BY <1>1, <1>2, <1>9, <2>1 DEF TableInv
    <2>8. HeldInv' BY <1>9, <2>1 DEF HeldInv
    <2>9. FlowsInv' BY <1>1, <1>2, <2>1 DEF FlowsInv
    <2>10. ScanInv' BY <2>1 DEF ScanInv
    <2>11. ViewIsCurrent'
      <3>1. \A c \in Chan : view[c] = names[c] \/ c \in reading \/ Pending(c)
        BY <1>1 DEF ViewIsCurrent, Pending
      <3>2. \A c \in Chan : view'[c] = names[c] \/ Pending(c) BY <2>3, <2>4, <3>1
      <3>3. \A c \in Chan : Pending(c) => Pending(c)' BY <1>2 DEF Pending
      <3>4. \A c \in Chan : view'[c] = names'[c] \/ Pending(c)' BY <1>2, <3>2, <3>3
      <3> QED BY <3>4 DEF ViewIsCurrent, Pending
    <2> QED BY <2>6, <2>7, <2>8, <2>9, <2>10, <2>11 DEF ControlInv
  <1> QED BY <1>8, <1>9 DEF TakePage

------------------------------------------------------------------------------
(* Theorems *)

\* The program starts in the invariant.
LEMMA InitInv ==
    ASSUME Init
    PROVE  ControlInv
  <1> USE DEF Init
  <1>1. PICK t \in Tables : reads = t.reads /\ names = t.names /\ flows = t.flows OBVIOUS
  <1>2. /\ reads \in {"channels", "flows"} /\ names \in [Chan -> Names] /\ flows \in Seq(Int)
        /\ IsInjective(flows) /\ \A i \in 1..Len(flows) : flows[i] < 0
    BY <1>1, ControlAssumption DEF Chan
  <1>3. scan \in [op: {"none", "channels", "flows"}, seq: Nat, idx: Nat \ {0}, got: Seq(Item)]
        /\ scan.op = "none"
    BY EmptySeq DEF NoScan
  <1>4. TypeInv BY <1>2, <1>3, EmptySeq DEF TypeInv
  <1>5. TableInv BY <1>3 DEF TableInv
  <1>6. HeldInv BY <1>3 DEF HeldInv
  <1>7. DOMAIN flows = 1..Len(flows) BY <1>2, LenProperties
  <1>8. FlowsInv BY <1>2, <1>3, <1>7 DEF FlowsInv, IsInjective
  <1>9. ScanInv BY <1>3 DEF ScanInv
  <1>10. ViewIsCurrent BY DEF ViewIsCurrent
  <1> QED BY <1>4, <1>5, <1>6, <1>8, <1>9, <1>10 DEF ControlInv

\* Every step keeps it.
LEMMA NextInv ==
    ASSUME ControlInv, [Next]_vars
    PROVE  ControlInv'
  <1>1. ASSUME NEW d \in wire, Handle(d) \/ TakePage(d) \/ Lose(d) PROVE ControlInv'
    BY <1>1, HandleStep, TakePageStep, LoseStep
  <1>2. ASSUME NEW new \in Renames, RenameRx(new) PROVE ControlInv' BY <1>2, RenameStep
  <1>3. ASSUME NEW c \in Chan, SetTx(c) PROVE ControlInv' BY <1>3, SetTxStep
  <1>4. CASE PushFlow BY <1>4, PushStep
  <1>5. ASSUME NEW i \in 1..Len(flows), RemoveFlow(i) PROVE ControlInv' BY <1>5, RemoveStep
  <1>6. CASE SendChannelChange BY <1>6, SendStep
  <1>7. ASSUME NEW mask \in notices, TakeNotice(mask) \/ LoseNotice(mask) PROVE ControlInv'
    BY <1>7, TakeNoticeStep, LoseNoticeStep
  <1>8. ASSUME NEW op \in {"channels", "flows"}, StartScan(op) PROVE ControlInv' BY <1>8, StartStep
  <1>9. CASE Retry BY <1>9, RetryStep
  <1>10. CASE UNCHANGED vars
    <2>1. UNCHANGED <<device, notices, reader, ghosts, wire>> BY <1>10 DEF vars
    <2>2. /\ \A g \in Seq(Item) : Readable(g) => Readable(g)'
          /\ \A g \in Seq(Item) : Complete(g) => Complete(g)'
      BY <2>1, ReadableStays DEF device, reader, ghosts
    <2>3. ScanInv' BY <2>1, <2>2, ScanStays DEF ControlInv, reader
    <2>4. wire' \subseteq Questions \cup Pages BY <2>1 DEF ControlInv, TypeInv
    <2>5. \A d \in wire' : d.op = reads BY <2>1 DEF ControlInv, TableInv
    <2> QED BY <2>1, <2>3, <2>4, <2>5, WireStep
  <1> QED BY <1>1, <1>2, <1>3, <1>4, <1>5, <1>6, <1>7, <1>8, <1>9, <1>10 DEF Next

\* The inductive invariant holds: every answer under the number of the present
\* question continues what the controller has read, and the last one ends it,
\* whatever encode_rx_page and encode_rx_flows_page are asked and however often.
THEOREM ControlInvariant == Spec => []ControlInv
  <1>1. Init => ControlInv BY InitInv
  <1>2. ControlInv /\ [Next]_vars => ControlInv' BY NextInv
  <1> QED BY <1>1, <1>2, PTL DEF Spec

\* Reading pages of RX channels yields the channels in order, each once, with a
\* name each has had since the scan began: for any number of channels, any page
\* size, and requests and answers of encode_rx_page lost, repeated and delayed.
THEOREM ChannelScansAreExact == Spec => []ScanIsExact
  <1>1. ControlInv => ScanIsExact
    <2> SUFFICES ASSUME ControlInv, scan.op = "channels"
                 PROVE  /\ Len(scan.got) = scan.idx - 1
                        /\ \A i \in 1..Len(scan.got) :
                              scan.got[i].id = i /\ scan.got[i].name \in held[i]
      BY DEF ScanIsExact
    <2>1. Len(scan.got) \in Nat /\ scan.idx = Len(scan.got) + 1 BY ScanTypes DEF ControlInv, ScanInv
    <2>2. ReadChannels(scan.got) BY DEF ControlInv, ScanInv, Readable
    <2> QED BY <2>1, <2>2 DEF ReadChannels
  <1> QED BY <1>1, ControlInvariant, PTL

\* rename_rx and channel_change leave no controller with a stale name unless a
\* mask was lost, for any number of channels and bytes of a mask.
THEOREM NoStaleNames == Spec => []ViewIsCurrent
  <1>1. ControlInv => ViewIsCurrent BY DEF ControlInv
  <1> QED BY <1>1, ControlInvariant, PTL

\* Reading rx_flows by index while establish and stop_flow change it yields no
\* flow twice, and without a removal misses none that was there at the start.
THEOREM FlowScansAreSound == Spec => FlowScanIsSound
  <1> DEFINE Sound == scan.op = "flows" /\ scan'.op = "none" =>
                         /\ IsInjective(flowView')
                         /\ ~removed => \A i \in 1..Len(had) : had[i] \in Range(flowView')
  <1>1. ASSUME ControlInv, [Next]_vars PROVE Sound
    <2> SUFFICES ASSUME scan.op = "flows", scan'.op = "none"
                 PROVE  /\ IsInjective(flowView')
                        /\ ~removed => \A i \in 1..Len(had) : had[i] \in Range(flowView')
      OBVIOUS
    <2>1. TypeInv /\ TableInv /\ FlowsInv /\ ScanInv BY <1>1 DEF ControlInv
    <2>2. PICK d \in wire : TakePage(d)
      <3>1. scan' # scan OBVIOUS
      <3> QED BY <1>1, <3>1
          DEF Next, vars, reader, Handle, HandleRxChannels, HandleRxFlows, Lose, RenameRx, SetTx,
              PushFlow, RemoveFlow, SendChannelChange, TakeNotice, LoseNotice, StartScan, Retry
    <2> DEFINE got == scan.got \o d.items
    <2>3. d.code = "ok" /\ flowView' = got
      <3>1. ASSUME Ask(scan.op, scan.idx + Len(d.items), got) PROVE FALSE
        <4>1. scan'.op = scan.op BY <3>1 DEF Ask
        <4> QED BY <4>1
      <3> QED BY <2>2, <3>1 DEF TakePage
    <2>4. d.to = "controller" /\ d.seq = scan.seq BY <2>2 DEF TakePage
    <2>5. ReadFlows(got) /\ (~removed => Len(had) <= Len(got))
      BY <2>1, <2>3, <2>4 DEF ScanInv, Readable, Complete
    <2> HIDE DEF got
    <2>6. got \in Seq(Int) /\ \A i, j \in 1..Len(got) : got[i] = got[j] => i = j BY <2>5 DEF ReadFlows
    <2>7. DOMAIN got = 1..Len(got) /\ Len(got) \in Nat BY <2>6, LenProperties
    <2>8. IsInjective(flowView') BY <2>3, <2>6, <2>7 DEF IsInjective
    <2>9. ASSUME ~removed, NEW i \in 1..Len(had) PROVE had[i] \in Range(flowView')
      <3>1. Len(had) \in Nat BY <2>1, ScanTypes
      <3>2. had[i] = flows[i] BY <2>1, <2>9 DEF FlowsInv
      <3>3. i \in 1..Len(got) /\ got[i] = flows[i] BY <2>5, <2>7, <2>9, <3>1 DEF ReadFlows
      <3> QED BY <2>3, <2>7, <3>2, <3>3 DEF Range
    <2> QED BY <2>8, <2>9
  <1>2. ControlInv /\ [Next]_vars => [Sound]_vars BY <1>1
  <1> QED BY <1>2, ControlInvariant, PTL DEF Spec, FlowScanIsSound

\* A page that says that more remain brings an item, and one behind which there
\* is a channel.
MoreInv ==
    \A d \in wire : d.to = "controller" /\ d.code = "more" =>
        /\ Len(d.items) > 0
        /\ d.op = "channels" => d.items[Len(d.items)].id < NChan

\* The server sends no other page.
LEMMA HandleMore ==
    ASSUME ControlInv, MoreInv, NEW q \in wire, Handle(q)
    PROVE  MoreInv'
  <1>1. TypeInv /\ TableInv BY DEF ControlInv
  <1>2. PICK page :
           /\ q.to = "device" /\ Reply(q, page)
           /\ \/ q.op = "channels" /\ page = EncodeRxChannels(PaginationStart(q.idx))
              \/ q.op = "flows" /\ page = EncodeRxFlows(PaginationStart(q.idx))
    BY DEF Handle, HandleRxChannels, HandleRxFlows
  <1>3. PICK start \in Nat : start = PaginationStart(q.idx)
    BY <1>1, <1>2, WireTypes DEF PaginationStart
  <1>4. PICK a : a = Answer(q, page) OBVIOUS
  <1>5. a.op = q.op /\ a.items = page.items /\ a.code = page.code BY <1>4 DEF Answer
  <1>6. wire' = (wire \ {q}) \cup {a} BY <1>2, <1>4 DEF Reply
  <1>7. CASE q.op = "channels"
    <2>1. page = EncodeRxChannels(start) BY <1>2, <1>3, <1>7
    <2>2. /\ page.items \in Seq(Entry)
          /\ \A i \in 1..Len(page.items) : page.items[i].id = start + i
          /\ page.code = "more" => Len(page.items) > 0 /\ start + Len(page.items) < NChan
      BY <1>1, <2>1, ChannelPage
    <2>3. Len(page.items) \in Nat BY <2>2, LenProperties
    <2>4. a.code = "more" => Len(a.items) > 0 /\ a.items[Len(a.items)].id < NChan
      BY <1>5, <2>2, <2>3
    <2> QED BY <1>6, <2>4 DEF MoreInv
  <1>8. CASE q.op = "flows"
    <2>1. page = EncodeRxFlows(start) BY <1>2, <1>3, <1>8
    <2>2. a.code = "more" => Len(a.items) > 0 BY <1>1, <1>5, <2>1, FlowPage
    <2> QED BY <1>5, <1>6, <1>8, <2>2 DEF MoreInv
  <1> QED BY <1>2, <1>7, <1>8

\* Whatever else is sent is a question.
LEMMA OthersMore ==
    ASSUME ControlInv, MoreInv, [Next]_vars, ~\E q \in wire : Handle(q)
    PROVE  MoreInv'
  <1>1. \A d \in wire' : d \in wire \/ d.to = "device"
    <2>1. ASSUME NEW op, NEW idx, NEW got, Ask(op, idx, got)
          PROVE  \A d \in wire' : d \in wire \/ d.to = "device"
      BY <2>1 DEF Ask, Question
    <2>2. ASSUME NEW d \in wire, TakePage(d) PROVE \A e \in wire' : e \in wire \/ e.to = "device"
      BY <2>1, <2>2 DEF TakePage
    <2>3. ASSUME NEW op, StartScan(op) PROVE \A e \in wire' : e \in wire \/ e.to = "device"
      BY <2>1, <2>3 DEF StartScan
    <2>4. CASE Retry BY <2>4 DEF Retry, Question
    <2>5. ASSUME NEW d, Lose(d) PROVE \A e \in wire' : e \in wire \/ e.to = "device"
      BY <2>5 DEF Lose
    <2>6. CASE UNCHANGED wire BY <2>6
    <2> QED BY <2>2, <2>3, <2>4, <2>5, <2>6
        DEF Next, vars, RenameRx, SetTx, PushFlow, RemoveFlow, SendChannelChange, TakeNotice, LoseNotice
  <1>2. \A d \in wire' : d.to = "controller" => d \in wire
    BY <1>1
  <1> QED BY <1>2 DEF MoreInv

\* MoreInv holds: encode_rx_page and encode_rx_flows_page put at least one item
\* on every page but the last, however long the strings of the first one are.
THEOREM MoreInvariant == Spec => []MoreInv
  <1>1. Init => MoreInv BY DEF Init, MoreInv
  <1>2. ControlInv /\ MoreInv /\ [Next]_vars => MoreInv' BY HandleMore, OthersMore
  <1> QED BY <1>1, <1>2, ControlInvariant, PTL DEF Spec

\* Each question of a scan is for a later item, and for a channel there is: a
\* scan of NChan channels comes to its end in at most NChan pages.
THEOREM ScansAdvance == Spec => ScanAdvances
  <1> DEFINE Advances == scan.op # "none" /\ scan'.op # "none" /\ scan' # scan =>
                            /\ scan'.idx > scan.idx
                            /\ scan.op = "channels" => scan'.idx <= NChan
  <1>1. ASSUME ControlInv, MoreInv, [Next]_vars PROVE Advances
    <2> SUFFICES ASSUME scan.op # "none", scan'.op # "none", scan' # scan
                 PROVE  scan'.idx > scan.idx /\ (scan.op = "channels" => scan'.idx <= NChan)
      OBVIOUS
    <2>1. TypeInv /\ ScanInv BY <1>1 DEF ControlInv
    <2>2. PICK d \in wire : TakePage(d)
      BY <1>1 DEF Next, vars, reader, Handle, HandleRxChannels, HandleRxFlows, Lose, RenameRx, SetTx,
                  PushFlow, RemoveFlow, SendChannelChange, TakeNotice, LoseNotice, StartScan, Retry
    <2>3. d.to = "controller" /\ d.seq = scan.seq /\ d.op = scan.op BY <2>2 DEF TakePage
    <2>4. PICK g, m, k, i : g = scan.got /\ m = Len(g) /\ k = Len(d.items) /\ i = scan.idx OBVIOUS
    <2>5. g \in Seq(Item) /\ m \in Nat /\ i \in Nat /\ NChan \in Nat BY <2>1, <2>4, ScanTypes
    <2>6. d.items \in Seq(Item) /\ k \in Nat BY <2>1, <2>3, <2>4, WireTypes
    <2>7. i = m + 1 /\ Readable(g \o d.items) BY <2>1, <2>3, <2>4 DEF ScanInv
    <2>8. d.code = "more" /\ scan'.idx = i + k
      <3>1. scan \in [op: {"none", "channels", "flows"}, seq: Nat, idx: Nat \ {0}, got: Seq(Item)]
        BY <2>1 DEF TypeInv
      <3>2. ASSUME scan' = [scan EXCEPT !.op = "none", !.idx = 1, !.got = <<>>] PROVE FALSE
        BY <3>1, <3>2
      <3>3. d.code = "more" /\ Ask(scan.op, scan.idx + Len(d.items), scan.got \o d.items)
        BY <2>2, <3>2 DEF TakePage
      <3>4. scan'.idx = scan.idx + Len(d.items) BY <3>3 DEF Ask
      <3> QED BY <2>4, <3>3, <3>4
    <2>9. k > 0 /\ (d.op = "channels" => d.items[k].id < NChan)
      BY <1>1, <2>3, <2>4, <2>8 DEF MoreInv
    <2>10. ASSUME scan.op = "channels" PROVE m + k < NChan
      <3>1. PICK h : h = g \o d.items OBVIOUS
      <3>2. Len(h) = m + k /\ h[m + k] = d.items[k]
        <4>1. PICK s : s = d.items /\ s \in Seq(Item) /\ k = Len(s) BY <2>4, <2>6
        <4>2. h = g \o s /\ m = Len(g) BY <2>4, <3>1, <4>1
        <4>3. Len(h) = m + k /\ h[m + k] = s[k]
          BY ONLY <2>5, <2>6, <2>9, <4>1, <4>2, ConcatProperties
        <4> QED BY <4>1, <4>3
      <3>3. \A j \in 1..Len(h) : h[j].id = j BY <2>7, <2>10, <3>1 DEF Readable, ReadChannels
      <3>4. h[m + k].id = m + k BY <2>5, <2>6, <2>9, <3>2, <3>3
      <3> QED BY <2>3, <2>9, <2>10, <3>2, <3>4
    <2>11. i + k > i /\ (m + k < NChan => i + k <= NChan) BY ONLY <2>5, <2>6, <2>7, <2>9
    <2> QED BY <2>4, <2>8, <2>10, <2>11
  <1>2. ControlInv /\ MoreInv /\ [Next]_vars => [Advances]_vars BY <1>1
  <1> QED BY <1>2, ControlInvariant, MoreInvariant, PTL DEF Spec, ScanAdvances

=============================================================================
