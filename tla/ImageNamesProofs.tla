--------------------------- MODULE ImageNamesProofs --------------------------
(***************************************************************************)
(* The image that a served request's Bento names was built from its own    *)
(* bento, in its own mode, for any number of requests, configurations and  *)
(* failing calls.                                                          *)
(*                                                                         *)
(* Images are found by name only, so this is a fact about names: two       *)
(* requests that differ in what their images are made of never have one    *)
(* address.  It rests on what the names are joined from: when repository   *)
(* and version contain no separator and the version is none of the words   *)
(* for a mode, the pieces of a tag can be told apart again, a tail that    *)
(* was replaced by its digest included.                                    *)
(***************************************************************************)
EXTENDS ImageNames, SequenceTheorems, TLAPS

\* The words that stand for a mode in the name of an image.
ModeWords == {"nomodels", "esgz", "s3"}

\* Repository and version are names without a separator, and no version is called like a mode.
NamesAreWords ==
    \A r \in Requests : \E a, b \in DOMAIN WordLength :
        Bento[r].repository = <<Word(a)>> /\ Bento[r].version = <<Word(b)>> /\ b \notin ModeWords

\* The registry's two addresses lead to the one registry.
OneRegistry ==
    \A r \in Requests : StoreOf[Host(r, TRUE)] = StoreOf[Host(r, FALSE)]

\* Whoever names an image himself takes a name of his own.
OwnNamesAreApart ==
    \A r, s \in Requests :
        (Named(r) \/ Named(s)) /\ Address(ImageName(r, TRUE)) = Address(ImageName(s, TRUE))
            => Content(r) = Content(s)

-----------------------------------------------------------------------------
(* The shape of a name. *)

AllWords == {Owner(r) : r \in Requests} \cup DOMAIN WordLength \cup {"yatai.", "."} \cup ModeWords
Words == {Word(w) : w \in AllWords}
Pieces == Words \cup {Digest(NameTail(r)) : r \in Requests}

Start(r) == <<Word("yatai.")>> \o Prefix(r)

LEMMA WordsAreEqual ==
    ASSUME NEW v, NEW w, Word(v) = Word(w)
    PROVE  v = w
  BY DEF Word

LEMMA SomeWords ==
    /\ Word("yatai.") \in Words /\ Word(".") \in Words
    /\ \A w \in ModeWords : Word(w) \in Words
    /\ \A w \in DOMAIN WordLength : Word(w) \in Words
    /\ \A r \in Requests : Word(Owner(r)) \in Words
    /\ Words \subseteq Pieces
  BY DEF Words, AllWords, Pieces

(* Concatenation of a text with a piece or two, in the form that names     *)
(* need: what was there stays, and the new pieces come last.               *)
LEMMA ConcatTwo ==
    ASSUME NEW S, NEW text \in Seq(S), NEW a \in S, NEW b \in S
    PROVE  /\ text \o <<a, b>> \in Seq(S)
           /\ Len(text \o <<a, b>>) = Len(text) + 2
           /\ \A i \in 1 .. Len(text) : (text \o <<a, b>>)[i] = text[i]
           /\ (text \o <<a, b>>)[Len(text) + 1] = a
           /\ (text \o <<a, b>>)[Len(text) + 2] = b
  OBVIOUS

LEMMA ConcatOne ==
    ASSUME NEW S, NEW text \in Seq(S), NEW a \in S
    PROVE  /\ text \o <<a>> \in Seq(S)
           /\ Len(text \o <<a>>) = Len(text) + 1
           /\ \A i \in 1 .. Len(text) : (text \o <<a>>)[i] = text[i]
           /\ (text \o <<a>>)[Len(text) + 1] = a
  OBVIOUS

LEMMA ThreePieces ==
    ASSUME NEW S, NEW a \in S, NEW b \in S, NEW c \in S
    PROVE  \E three \in Seq(S) :
              /\ three = <<a>> \o <<b>> \o <<c>>
              /\ Len(three) = 3 /\ three[1] = a /\ three[3] = c
  <1>1. PICK pair \in Seq(S) : pair = <<a>> \o <<b>> /\ Len(pair) = 2 /\ pair[1] = a
    <2>1. /\ <<a>> \o <<b>> \in Seq(S) /\ Len(<<a>> \o <<b>>) = 2
          /\ (<<a>> \o <<b>>)[1] = a
      OBVIOUS
    <2> QED  BY <2>1, Zenon
  <1>2. /\ pair \o <<c>> \in Seq(S)
        /\ Len(pair \o <<c>>) = Len(pair) + 1
        /\ \A i \in 1 .. Len(pair) : (pair \o <<c>>)[i] = pair[i]
        /\ (pair \o <<c>>)[Len(pair) + 1] = c
    BY ConcatOne
  <1>3. PICK three \in Seq(S) : three = pair \o <<c>>  BY <1>2
  <1>4. Len(three) = 3 /\ three[1] = a /\ three[3] = c
    BY <1>1, <1>2, <1>3
  <1>5. three = <<a>> \o <<b>> \o <<c>>  BY <1>1, <1>3, Zenon
  <1> QED  BY <1>4, <1>5

\* A mode that is on adds two pieces, the second of which is its word.
LEMMA SuffixFacts ==
    ASSUME NEW text \in Seq(Words), NEW flag \in BOOLEAN, NEW w \in ModeWords
    PROVE  /\ text \o Suffix(flag, w) \in Seq(Words)
           /\ Len(text \o Suffix(flag, w)) = Len(text) + (IF flag THEN 2 ELSE 0)
           /\ \A i \in 1 .. Len(text) : (text \o Suffix(flag, w))[i] = text[i]
           /\ flag => (text \o Suffix(flag, w))[Len(text) + 2] = Word(w)
  <1>1. CASE flag
    <2>1. Suffix(flag, w) = <<Word("."), Word(w)>>  BY <1>1 DEF Suffix
    <2>2. Word(".") \in Words /\ Word(w) \in Words  BY SomeWords
    <2> DEFINE long == text \o <<Word("."), Word(w)>>
    <2>3. /\ long \in Seq(Words)
          /\ Len(long) = Len(text) + 2
          /\ \A i \in 1 .. Len(text) : long[i] = text[i]
          /\ long[Len(text) + 2] = Word(w)
      BY <2>2, ConcatTwo
    <2>4. text \o Suffix(flag, w) = long  BY <2>1
    <2> HIDE DEF long
    <2> QED  BY <1>1, <2>3, <2>4
  <1>2. CASE ~flag
    <2>1. Suffix(flag, w) = <<>>  BY <1>2 DEF Suffix
    <2>2. text \o Suffix(flag, w) = text  BY <2>1, ConcatEmptySeq
    <2>3. Len(text) \in Nat  BY LenProperties
    <2> QED  BY <1>2, <2>2, <2>3
  <1> QED  BY <1>1, <1>2

\* The first pieces of a tail, and what the fifth one says of the modes.
LEMMA TailFacts ==
    ASSUME ImageNamesAssumption, NamesAreWords, config \in Configs, NEW r \in Requests
    PROVE  /\ NameTail(r) \in Seq(Words)
           /\ Len(NameTail(r)) = 3 + (IF Bento[r].separateModels THEN 2 ELSE 0)
                 + (IF config.estargz THEN 2 ELSE 0) + (IF Bento[r].storedInS3 THEN 2 ELSE 0)
           /\ Bento[r].repository = <<NameTail(r)[1]>>
           /\ Bento[r].version = <<NameTail(r)[3]>>
           /\ Bento[r].separateModels => NameTail(r)[5] = Word("nomodels")
           /\ ~Bento[r].separateModels /\ config.estargz => NameTail(r)[5] = Word("esgz")
           /\ ~Bento[r].separateModels /\ ~config.estargz /\ Bento[r].storedInS3
                 => NameTail(r)[5] = Word("s3")
  <1> DEFINE named == Bento[r].repository \o <<Word(".")>> \o Bento[r].version
             apart == named \o Suffix(Bento[r].separateModels, "nomodels")
             zipped == apart \o Suffix(config.estargz, "esgz")
             tail == zipped \o Suffix(Bento[r].storedInS3, "s3")
  <1>1. PICK a, b \in DOMAIN WordLength :
            Bento[r].repository = <<Word(a)>> /\ Bento[r].version = <<Word(b)>>
    BY DEF NamesAreWords
  <1>2. /\ Bento[r].separateModels \in BOOLEAN /\ Bento[r].storedInS3 \in BOOLEAN
        /\ config.estargz \in BOOLEAN
    BY DEF ImageNamesAssumption
  <1>3. named \in Seq(Words) /\ Len(named) = 3 /\ named[1] = Word(a) /\ named[3] = Word(b)
    <2>1. Word(a) \in Words /\ Word(b) \in Words /\ Word(".") \in Words  BY SomeWords
    <2>2. PICK three \in Seq(Words) :
              /\ three = <<Word(a)>> \o <<Word(".")>> \o <<Word(b)>>
              /\ Len(three) = 3 /\ three[1] = Word(a) /\ three[3] = Word(b)
      BY <2>1, ThreePieces
    <2>3. named = three  BY <1>1, <2>2, Zenon
    <2> HIDE DEF named
    <2> QED  BY <2>2, <2>3
  <1> HIDE DEF named
  <1>4. "nomodels" \in ModeWords /\ "esgz" \in ModeWords /\ "s3" \in ModeWords  BY DEF ModeWords
  <1>5. /\ apart \in Seq(Words)
        /\ Len(apart) = 3 + (IF Bento[r].separateModels THEN 2 ELSE 0)
        /\ apart[1] = Word(a) /\ apart[3] = Word(b)
        /\ Bento[r].separateModels => apart[5] = Word("nomodels")
    <2>1. /\ apart \in Seq(Words)
          /\ Len(apart) = Len(named) + (IF Bento[r].separateModels THEN 2 ELSE 0)
          /\ \A i \in 1 .. Len(named) : apart[i] = named[i]
          /\ Bento[r].separateModels => apart[Len(named) + 2] = Word("nomodels")
      BY <1>2, <1>3, <1>4, SuffixFacts
    <2> HIDE DEF apart
    <2> QED  BY <1>2, <1>3, <2>1
  <1> HIDE DEF apart
  <1>6. /\ zipped \in Seq(Words)
        /\ Len(zipped) = Len(apart) + (IF config.estargz THEN 2 ELSE 0)
        /\ \A i \in 1 .. Len(apart) : zipped[i] = apart[i]
        /\ config.estargz => zipped[Len(apart) + 2] = Word("esgz")
    BY <1>2, <1>4, <1>5, SuffixFacts
  <1> HIDE DEF zipped
  <1>7. /\ tail \in Seq(Words)
        /\ Len(tail) = Len(zipped) + (IF Bento[r].storedInS3 THEN 2 ELSE 0)
        /\ \A i \in 1 .. Len(zipped) : tail[i] = zipped[i]
        /\ Bento[r].storedInS3 => tail[Len(zipped) + 2] = Word("s3")
    BY <1>2, <1>4, <1>6, SuffixFacts
  <1>8. NameTail(r) = tail  BY DEF NameTail, zipped, apart, named
  <1> HIDE DEF tail
  <1>9. tail[1] = Word(a) /\ tail[3] = Word(b)
    BY <1>2, <1>5, <1>6, <1>7
  <1>10. /\ Bento[r].separateModels => tail[5] = Word("nomodels")
         /\ ~Bento[r].separateModels /\ config.estargz => tail[5] = Word("esgz")
         /\ ~Bento[r].separateModels /\ ~config.estargz /\ Bento[r].storedInS3
               => tail[5] = Word("s3")
    BY <1>2, <1>5, <1>6, <1>7
  <1>11. Len(tail) = 3 + (IF Bento[r].separateModels THEN 2 ELSE 0)
                 + (IF config.estargz THEN 2 ELSE 0) + (IF Bento[r].storedInS3 THEN 2 ELSE 0)
    BY <1>2, <1>5, <1>6, <1>7
  <1> QED  BY <1>1, <1>7, <1>8, <1>9, <1>10, <1>11

-----------------------------------------------------------------------------
(* Names can be taken apart again. *)

\* Tails that are equal were joined from the same names, in the same modes.
LEMMA TailsTellApart ==
    ASSUME ImageNamesAssumption, NamesAreWords, config \in Configs,
           NEW r \in Requests, NEW s \in Requests, NameTail(r) = NameTail(s)
    PROVE  /\ Bento[r].repository = Bento[s].repository /\ Bento[r].version = Bento[s].version
           /\ Bento[r].separateModels = Bento[s].separateModels
           /\ Bento[r].storedInS3 = Bento[s].storedInS3
  <1>1. \A q \in {r, s} :
           /\ Bento[q].separateModels \in BOOLEAN /\ Bento[q].storedInS3 \in BOOLEAN
           /\ Len(NameTail(q)) = 3 + (IF Bento[q].separateModels THEN 2 ELSE 0)
                 + (IF config.estargz THEN 2 ELSE 0) + (IF Bento[q].storedInS3 THEN 2 ELSE 0)
           /\ Bento[q].separateModels => NameTail(q)[5] = Word("nomodels")
           /\ ~Bento[q].separateModels /\ config.estargz => NameTail(q)[5] = Word("esgz")
           /\ ~Bento[q].separateModels /\ ~config.estargz /\ Bento[q].storedInS3
                 => NameTail(q)[5] = Word("s3")
    BY TailFacts DEF ImageNamesAssumption
  <1>2. config.estargz \in BOOLEAN  BY DEF ImageNamesAssumption
  <1>3. /\ Word("nomodels") # Word("esgz") /\ Word("nomodels") # Word("s3")
    BY WordsAreEqual
  <1>4. Bento[r].separateModels => Bento[s].separateModels
    BY <1>1, <1>2, <1>3
  <1>5. Bento[s].separateModels => Bento[r].separateModels
    BY <1>1, <1>2, <1>3
  <1>6. Bento[r].storedInS3 <=> Bento[s].storedInS3
    BY <1>1, <1>2, <1>4, <1>5
  <1>7. /\ Bento[r].repository = <<NameTail(r)[1]>> /\ Bento[s].repository = <<NameTail(s)[1]>>
        /\ Bento[r].version = <<NameTail(r)[3]>> /\ Bento[s].version = <<NameTail(s)[3]>>
    BY TailFacts
  <1> QED  BY <1>1, <1>4, <1>5, <1>6, <1>7

\* A tag starts with one piece, or with three when there is an owner.
LEMMA StartFacts ==
    ASSUME NEW r \in Requests
    PROVE  /\ Start(r) \in Seq(Pieces)
           /\ Owner(r) = None => Len(Start(r)) = 1
           /\ Owner(r) # None => Len(Start(r)) = 3 /\ Start(r)[2] = Word(Owner(r))
  <1>1. Word("yatai.") \in Pieces /\ Word(Owner(r)) \in Pieces /\ Word(".") \in Pieces
    BY SomeWords
  <1>2. PICK first \in Seq(Pieces) : first = <<Word("yatai.")>> /\ Len(first) = 1
    <2>1. <<Word("yatai.")>> \in Seq(Pieces) /\ Len(<<Word("yatai.")>>) = 1  BY <1>1
    <2> QED  BY <2>1, Zenon
  <1>3. CASE Owner(r) = None
    <2>1. Start(r) = first \o <<>>  BY <1>2, <1>3 DEF Start, Prefix
    <2>2. Start(r) = first  BY <2>1, ConcatEmptySeq
    <2> QED  BY <1>2, <1>3, <2>2
  <1>4. CASE Owner(r) # None
    <2> DEFINE start == first \o <<Word(Owner(r)), Word(".")>>
    <2>1. Start(r) = start  BY <1>2, <1>4 DEF Start, Prefix
    <2>2. /\ start \in Seq(Pieces)
          /\ Len(start) = Len(first) + 2
          /\ start[Len(first) + 1] = Word(Owner(r))
      BY <1>1, ConcatTwo
    <2> HIDE DEF start
    <2> QED  BY <1>2, <1>4, <2>1, <2>2
  <1> QED  BY <1>3, <1>4

\* A tag is a start with a tail behind it, or with the digest of a tail.
LEMMA TagForms ==
    ASSUME NEW r \in Requests, Tag(r) # <<>>
    PROVE  Tag(r) = Start(r) \o NameTail(r) \/ Tag(r) = Start(r) \o <<Digest(NameTail(r))>>
  BY DEF Tag, Start


LEMMA TailsAreLong ==
    ASSUME ImageNamesAssumption, NamesAreWords, config \in Configs, NEW r \in Requests
    PROVE  Len(NameTail(r)) >= 3
  BY TailFacts DEF ImageNamesAssumption

\* What a tag is made of: a start, and a tail or its digest behind it.
LEMMA TagPieces ==
    ASSUME ImageNamesAssumption, NamesAreWords, config \in Configs, NEW r \in Requests, Tag(r) # <<>>
    PROVE  \E start, end \in Seq(Pieces) :
              /\ start = Start(r)
              /\ end = NameTail(r) \/ end = <<Digest(NameTail(r))>>
              /\ Tag(r) = start \o end
  <1>1. NameTail(r) \in Seq(Pieces)
    BY TailFacts, SomeWords, SeqMonotonic
  <1>2. <<Digest(NameTail(r))>> \in Seq(Pieces)
    <2>1. Digest(NameTail(r)) \in Pieces  BY DEF Pieces
    <2> QED  BY <2>1
  <1>3. Start(r) \in Seq(Pieces)  BY StartFacts
  <1> QED  BY <1>1, <1>2, <1>3, TagForms, Zenon

\* The piece of a text that is at a place of its continuation by another.
PieceAt(s, t, i) == IF i <= Len(s) THEN s[i] ELSE t[i - Len(s)]

\* Two continuations that are one text.
OneText(s, t, u, v) == s \o t = u \o v

\* Concatenations that are equal are equal piece by piece.
LEMMA EqualTexts ==
    ASSUME NEW S, NEW s \in Seq(S), NEW t \in Seq(S), NEW u \in Seq(S), NEW v \in Seq(S),
           OneText(s, t, u, v)
    PROVE  /\ Len(s) + Len(t) = Len(u) + Len(v)
           /\ \A i \in 1 .. Len(s) + Len(t) : PieceAt(s, t, i) = PieceAt(u, v, i)
  <1>1. /\ Len(s \o t) = Len(s) + Len(t)
        /\ \A i \in 1 .. Len(s) + Len(t) : (s \o t)[i] = IF i <= Len(s) THEN s[i] ELSE t[i - Len(s)]
    BY ConcatProperties
  <1>2. /\ Len(u \o v) = Len(u) + Len(v)
        /\ \A i \in 1 .. Len(u) + Len(v) : (u \o v)[i] = IF i <= Len(u) THEN u[i] ELSE v[i - Len(u)]
    BY ConcatProperties
  <1> DEFINE left == s \o t
             right == u \o v
  <1>3. left = right  BY DEF OneText
  <1>4. /\ Len(left) = Len(s) + Len(t)
        /\ \A i \in 1 .. Len(s) + Len(t) : left[i] = IF i <= Len(s) THEN s[i] ELSE t[i - Len(s)]
    BY <1>1
  <1>5. /\ Len(right) = Len(u) + Len(v)
        /\ \A i \in 1 .. Len(u) + Len(v) : right[i] = IF i <= Len(u) THEN u[i] ELSE v[i - Len(u)]
    BY <1>2
  <1> HIDE DEF left, right
  <1>6. Len(s) + Len(t) = Len(u) + Len(v)  BY <1>3, <1>4, <1>5
  <1> QED  BY <1>3, <1>4, <1>5, <1>6 DEF PieceAt

(* Two texts that are equal and are cut at the same place have equal       *)
(* halves.                                                                 *)
LEMMA EqualHalves ==
    ASSUME NEW S, NEW s \in Seq(S), NEW t \in Seq(S), NEW u \in Seq(S), NEW v \in Seq(S),
           OneText(s, t, u, v), Len(s) = Len(u)
    PROVE  s = u /\ t = v
  <1>1. /\ Len(s) + Len(t) = Len(u) + Len(v)
        /\ \A i \in 1 .. Len(s) + Len(t) : PieceAt(s, t, i) = PieceAt(u, v, i)
    BY EqualTexts
  <1>2. Len(s) \in Nat /\ Len(t) \in Nat /\ Len(v) \in Nat  BY LenProperties
  <1>3. ASSUME NEW i \in 1 .. Len(s)  PROVE s[i] = u[i]
    <2>1. i \in 1 .. Len(s) + Len(t) /\ i <= Len(s)  BY <1>2
    <2> QED  BY <1>1, <2>1 DEF PieceAt
  <1>4. ASSUME NEW i \in 1 .. Len(t)  PROVE t[i] = v[i]
    <2>1. /\ Len(s) + i \in 1 .. Len(s) + Len(t)
          /\ ~(Len(s) + i <= Len(s))
          /\ (Len(s) + i) - Len(s) = i
      BY <1>2
    <2> QED  BY <1>1, <2>1 DEF PieceAt
  <1>5. Len(t) = Len(v)  BY <1>1, <1>2
  <1> QED  BY <1>3, <1>4, <1>5, SeqEqual

\* No piece of a tail is a digest, and the digests of two tails tell them apart.
LEMMA DigestsTellApart ==
    ASSUME ImageNamesAssumption, NamesAreWords, config \in Configs, NEW r \in Requests
    PROVE  /\ Digest(NameTail(r)) \notin Words
           /\ \A s \in Requests : Digest(NameTail(r)) = Digest(NameTail(s)) => NameTail(r) = NameTail(s)
  <1>1. NameTail(r) # <<>>
    <2>1. Len(NameTail(r)) >= 3  BY TailsAreLong
    <2> QED  BY <2>1
  <1>2. \A w \in Words : w.of = <<>>  BY DEF Words, Word
  <1> QED  BY <1>1, <1>2 DEF Digest


\* A version is not called like a mode.
LEMMA VersionsAreNoModes ==
    ASSUME ImageNamesAssumption, NamesAreWords, config \in Configs, NEW r \in Requests
    PROVE  \A w \in ModeWords : NameTail(r)[3] # Word(w)
  <1>1. PICK b \in DOMAIN WordLength : Bento[r].version = <<Word(b)>> /\ b \notin ModeWords
    BY DEF NamesAreWords
  <1>2. Bento[r].version = <<NameTail(r)[3]>>  BY TailFacts
  <1>3. NameTail(r)[3] = Word(b)
    <2>1. <<NameTail(r)[3]>>[1] = <<Word(b)>>[1]  BY <1>1, <1>2
    <2> QED  BY <2>1
  <1> QED  BY <1>1, <1>3, WordsAreEqual

\* The fifth piece of a tail is there only as the word of a mode.
LEMMA FifthPiece ==
    ASSUME ImageNamesAssumption, NamesAreWords, config \in Configs, NEW r \in Requests,
           Len(NameTail(r)) >= 5
    PROVE  \E w \in ModeWords : NameTail(r)[5] = Word(w)
  <1>1. /\ Bento[r].separateModels \in BOOLEAN /\ Bento[r].storedInS3 \in BOOLEAN
        /\ config.estargz \in BOOLEAN
    BY DEF ImageNamesAssumption
  <1>2. "nomodels" \in ModeWords /\ "esgz" \in ModeWords /\ "s3" \in ModeWords  BY DEF ModeWords
  <1>3. Bento[r].separateModels \/ config.estargz \/ Bento[r].storedInS3
    BY <1>1, TailFacts
  <1> QED  BY <1>1, <1>2, <1>3, TailFacts

\* A tag with an owner is no tag without one.
LEMMA OwnersShow ==
    ASSUME ImageNamesAssumption, NamesAreWords, config \in Configs,
           NEW r \in Requests, NEW s \in Requests, Tag(r) # <<>>, Tag(s) # <<>>,
           Owner(r) # None, Owner(s) = None
    PROVE  Tag(r) # Tag(s)
  <1> SUFFICES ASSUME Tag(r) = Tag(s)  PROVE FALSE
    OBVIOUS
  <1>1. PICK c, e \in Seq(Pieces) :
            /\ c = Start(r)
            /\ e = NameTail(r) \/ e = <<Digest(NameTail(r))>>
            /\ Tag(r) = c \o e
    BY TagPieces
  <1>2. PICK d, f \in Seq(Pieces) :
            /\ d = Start(s)
            /\ f = NameTail(s) \/ f = <<Digest(NameTail(s))>>
            /\ Tag(s) = d \o f
    BY TagPieces
  <1>3. Len(c) = 3 /\ Len(d) = 1  BY <1>1, <1>2, StartFacts
  <1>4. Len(f) = Len(e) + 2 /\ \A i \in 1 .. Len(e) : e[i] = f[i + 2]
    <2>1. OneText(c, e, d, f)  BY <1>1, <1>2 DEF OneText
    <2>2. /\ Len(c) + Len(e) = Len(d) + Len(f)
          /\ \A i \in 1 .. Len(c) + Len(e) : PieceAt(c, e, i) = PieceAt(d, f, i)
      BY <2>1, EqualTexts
    <2>3. Len(e) \in Nat /\ Len(f) \in Nat  BY LenProperties
    <2>4. ASSUME NEW i \in 1 .. Len(e)  PROVE e[i] = f[i + 2]
      <3>1. /\ i + 3 \in 1 .. Len(c) + Len(e)
            /\ ~(i + 3 <= Len(c)) /\ ~(i + 3 <= Len(d))
            /\ (i + 3) - Len(c) = i /\ (i + 3) - Len(d) = i + 2
        BY <1>3, <2>3
      <3> QED  BY <2>2, <3>1 DEF PieceAt
    <2> QED  BY <1>3, <2>2, <2>3, <2>4
  <1>5. Len(e) \in Nat /\ Len(f) \in Nat /\ Len(e) >= 1
    <2>1. Len(e) \in Nat /\ Len(f) \in Nat  BY LenProperties
    <2>2. CASE e = NameTail(r)
      <3>1. Len(NameTail(r)) >= 3  BY TailsAreLong
      <3> QED  BY <2>1, <2>2, <3>1
    <2>3. CASE e = <<Digest(NameTail(r))>>
      BY <2>1, <2>3
    <2> QED  BY <1>1, <2>2, <2>3
  <1>6. f = NameTail(s)
    <2> SUFFICES ASSUME f = <<Digest(NameTail(s))>>  PROVE FALSE
      BY <1>2
    <2>1. Len(f) = 1  OBVIOUS
    <2> QED  BY <1>4, <1>5, <2>1
  <1>7. CASE e = NameTail(r)
    <2>1. Len(e) >= 3  BY <1>7, TailsAreLong
    <2>2. e[3] = f[5] /\ Len(f) >= 5  BY <1>4, <1>5, <2>1
    <2> QED  BY <1>6, <1>7, <2>2, FifthPiece, VersionsAreNoModes
  <1>8. CASE e = <<Digest(NameTail(r))>>
    <2>1. Len(e) = 1 /\ e[1] = Digest(NameTail(r))  BY <1>8
    <2>2. e[1] = f[3] /\ Len(f) = 3
      BY <1>4, <1>5, <2>1
    <2>3. f[3] \in Words  BY <1>6, <2>2, TailFacts, ElementOfSeq
    <2>4. Digest(NameTail(r)) \notin Words  BY DigestsTellApart
    <2>5. Digest(NameTail(r)) = f[3]  BY <2>1, <2>2
    <2> QED  BY <2>3, <2>4, <2>5, Zenon
  <1> QED  BY <1>1, <1>7, <1>8

(* Two tags that are equal have one owner, and the names and modes behind  *)
(* them are the same.                                                      *)
LEMMA TagsTellApart ==
    ASSUME ImageNamesAssumption, NamesAreWords, config \in Configs,
           NEW r \in Requests, NEW s \in Requests, Tag(r) # <<>>, Tag(r) = Tag(s)
    PROVE  Owner(r) = Owner(s) /\ NameTail(r) = NameTail(s)
  <1>1. PICK c, e \in Seq(Pieces) :
            /\ c = Start(r)
            /\ e = NameTail(r) \/ e = <<Digest(NameTail(r))>>
            /\ Tag(r) = c \o e
    BY TagPieces
  <1>2. PICK d, f \in Seq(Pieces) :
            /\ d = Start(s)
            /\ f = NameTail(s) \/ f = <<Digest(NameTail(s))>>
            /\ Tag(s) = d \o f
    BY TagPieces
  <1>3. (Owner(r) = None) <=> (Owner(s) = None)  BY OwnersShow
  <1>4. Len(c) = Len(d) /\ Len(c) \in Nat  BY <1>1, <1>2, <1>3, StartFacts
  <1>5. c = d /\ e = f
    <2>1. OneText(c, e, d, f)  BY <1>1, <1>2 DEF OneText
    <2> QED  BY <1>4, <2>1, EqualHalves
  <1>6. Owner(r) = Owner(s)
    <2>1. CASE Owner(r) = None  BY <1>3, <2>1
    <2>2. CASE Owner(r) # None
      <3>1. c[2] = Word(Owner(r)) /\ d[2] = Word(Owner(s))
        BY <1>1, <1>2, <1>3, <2>2, StartFacts
      <3>2. Word(Owner(r)) = Word(Owner(s))  BY <1>5, <3>1, Zenon
      <3> QED  BY <3>2 DEF Word
    <2> QED  BY <2>1, <2>2
  <1>7. NameTail(r) = NameTail(s)
    <2>1. Len(NameTail(r)) >= 3 /\ Len(NameTail(s)) >= 3  BY TailsAreLong
    <2>2. \A q \in Requests : Len(<<Digest(NameTail(q))>>) = 1 /\ <<Digest(NameTail(q))>>[1] = Digest(NameTail(q))
      OBVIOUS
    <2>3. CASE e = NameTail(r) /\ f = NameTail(s)  BY <1>5, <2>3
    <2>4. CASE e = <<Digest(NameTail(r))>> /\ f = <<Digest(NameTail(s))>>
      <3>1. Digest(NameTail(r)) = Digest(NameTail(s))  BY <1>5, <2>2, <2>4
      <3> QED  BY <3>1, DigestsTellApart
    <2>5. CASE e = NameTail(r) /\ f = <<Digest(NameTail(s))>>
      <3>1. Len(e) >= 3 /\ Len(f) = 1  BY <2>1, <2>2, <2>5, Zenon
      <3> QED  BY <1>5, <3>1
    <2>6. CASE e = <<Digest(NameTail(r))>> /\ f = NameTail(s)
      <3>1. Len(e) = 1 /\ Len(f) >= 3  BY <2>1, <2>2, <2>6, Zenon
      <3> QED  BY <1>5, <3>1
    <2> QED  BY <1>1, <1>2, <2>3, <2>4, <2>5, <2>6
  <1> QED  BY <1>6, <1>7


-----------------------------------------------------------------------------
(* Images are found by their names. *)

\* What the argument needs of the configuration and the requests that name their images.
NamesAreApart == NamesAreWords /\ OneRegistry /\ OwnNamesAreApart

\* A name under which an image may be pushed: it did not panic.
Sound(r) == ImageName(r, TRUE).tag # <<>>

(* Equal addresses stand for equal images, whichever of the two names of   *)
(* each request is looked at.                                              *)
LEMMA AddressesTellApart ==
    ASSUME ImageNamesAssumption, NamesAreApart, config \in Configs,
           NEW r \in Requests, NEW s \in Requests, Sound(r),
           Address(ImageName(r, TRUE)) = Address(ImageName(s, TRUE))
    PROVE  Content(r) = Content(s)
  <1>1. CASE Named(r) \/ Named(s)
    BY <1>1 DEF NamesAreApart, OwnNamesAreApart
  <1>2. CASE ~Named(r) /\ ~Named(s)
    <2>1. Tag(r) = Tag(s) /\ Tag(r) # <<>>
      BY <1>2 DEF Address, ImageName, Sound
    <2>2. Owner(r) = Owner(s) /\ NameTail(r) = NameTail(s)
      BY <2>1, TagsTellApart DEF NamesAreApart
    <2>3. /\ Bento[r].repository = Bento[s].repository /\ Bento[r].version = Bento[s].version
          /\ Bento[r].separateModels = Bento[s].separateModels
          /\ Bento[r].storedInS3 = Bento[s].storedInS3
      BY <2>2, TailsTellApart DEF NamesAreApart
    <2> QED  BY <2>2, <2>3 DEF Content
  <1> QED  BY <1>1, <1>2

LEMMA OneAddress ==
    ASSUME OneRegistry, NEW r \in Requests
    PROVE  Address(ImageName(r, TRUE)) = Address(ImageName(r, FALSE))
  BY DEF OneRegistry, Address, ImageName

-----------------------------------------------------------------------------
\* The names that calls have computed are those of the configuration, which does not change.
NamesComputed ==
    /\ config \in Configs
    /\ name = [r \in Requests |-> [inCluster \in BOOLEAN |-> ImageName(r, inCluster)]]
    /\ progress \in [Requests -> {"new", "failed", "building", "served"}]

\* Every image was pushed under the name of a request it was built for.
ImagesArePushed ==
    \A i \in registry : \E s \in Requests :
        Sound(s) /\ i = [address |-> Address(ImageName(s, TRUE)), content |-> Content(s)]

\* A request whose name panics gets no further than its check.
NamesAreSound == \A r \in Requests : progress[r] \in {"building", "served"} => Sound(r)

NamesInvariant ==
    NamesAreApart /\ NamesComputed /\ ImagesArePushed /\ NamesAreSound /\ PulledImageIsOwn

\* The names in memory, and which of them a call uses.
LEMMA NamesInMemory ==
    ASSUME NamesComputed, NEW r \in Requests
    PROVE  /\ name[r][TRUE] = ImageName(r, TRUE) /\ name[r][FALSE] = ImageName(r, FALSE)
           /\ \/ Asked(r) = ImageName(r, TRUE)
              \/ Asked(r) = ImageName(r, FALSE)
           /\ ~Panics(r) => Sound(r)
  <1>1. name[r] = [inCluster \in BOOLEAN |-> ImageName(r, inCluster)]  BY DEF NamesComputed
  <1>2. name[r][TRUE] = ImageName(r, TRUE) /\ name[r][FALSE] = ImageName(r, FALSE)
    BY <1>1
  <1>3. Asked(r) = name[r][TRUE] \/ Asked(r) = name[r][FALSE]
    <2>1. CASE config.ecr
      <3>1. (~config.ecr) = FALSE  BY <2>1
      <3> QED  BY <3>1 DEF Asked
    <2>2. CASE ~config.ecr
      <3>1. (~config.ecr) = TRUE  BY <2>2
      <3> QED  BY <3>1 DEF Asked
    <2> QED  BY <2>1, <2>2
  <1>4. ImageName(r, TRUE).tag = ImageName(r, FALSE).tag  BY DEF ImageName
  <1> QED  BY <1>2, <1>3, <1>4 DEF Panics, Sound

(* While the configuration stands, so does everything that is computed     *)
(* from it.                                                                *)
LEMMA ConfigStands ==
    ASSUME UNCHANGED config
    PROVE  /\ NamesAreApart => NamesAreApart'
           /\ \A r \in Requests : \A b \in BOOLEAN :
                 /\ ImageName(r, b)' = ImageName(r, b)
                 /\ Address(ImageName(r, b))' = Address(ImageName(r, b))
           /\ \A r \in Requests : Content(r)' = Content(r) /\ (Sound(r) <=> Sound(r)')
  <1>1. \A r \in Requests : Owner(r)' = Owner(r) /\ Content(r)' = Content(r)
    BY DEF Owner, Content
  <1>2. \A r \in Requests : Prefix(r)' = Prefix(r)  BY <1>1 DEF Prefix
  <1>3. \A r \in Requests : NameTail(r)' = NameTail(r)  BY DEF NameTail
  <1>4. \A r \in Requests : Tag(r)' = Tag(r)  BY <1>2, <1>3 DEF Tag
  <1>5. \A r \in Requests : \A b \in BOOLEAN : Host(r, b)' = Host(r, b)  BY DEF Host
  <1>6. \A r \in Requests : \A b \in BOOLEAN : ImageName(r, b)' = ImageName(r, b)
    BY <1>4, <1>5 DEF ImageName
  <1>7. \A r \in Requests : \A b \in BOOLEAN : Address(ImageName(r, b))' = Address(ImageName(r, b))
    BY <1>6 DEF Address
  <1>8. \A r \in Requests : Sound(r) <=> Sound(r)'  BY <1>6 DEF Sound
  <1>9. NamesAreApart => NamesAreApart'
    BY <1>1, <1>5, <1>7 DEF NamesAreApart, NamesAreWords, OneRegistry, OwnNamesAreApart
  <1> QED  BY <1>1, <1>6, <1>7, <1>8, <1>9


-----------------------------------------------------------------------------
LEMMA InitNames ==
    ASSUME Init, NamesAreApart
    PROVE  NamesInvariant
  BY DEF Init, NamesInvariant, NamesComputed, ImagesArePushed, NamesAreSound, PulledImageIsOwn

\* A step that leaves configuration and images alone: only the request that goes on has to be looked at.
LEMMA RequestGoesOn ==
    ASSUME NamesInvariant, UNCHANGED <<config, name, registry>>,
           NEW r \in Requests, NEW step \in {"new", "failed", "building", "served"}, Go(r, step),
           step \in {"building", "served"} => Sound(r),
           step = "served" => \E i \in registry : /\ i.address = Address(ImageName(r, FALSE))
                                                  /\ i.content = Content(r)
    PROVE  NamesInvariant'
  <1>1. /\ progress' \in [Requests -> {"new", "failed", "building", "served"}]
        /\ progress'[r] = step
        /\ \A s \in Requests \ {r} : progress'[s] = progress[s]
    BY DEF Go, NamesInvariant, NamesComputed
  <1>2. NamesAreApart'  BY ConfigStands DEF NamesInvariant
  <1>3. NamesComputed'
    <2>1. name' = [s \in Requests |-> [b \in BOOLEAN |-> ImageName(s, b)']]
      BY ConfigStands DEF NamesInvariant, NamesComputed
    <2> QED  BY <1>1, <2>1 DEF NamesInvariant, NamesComputed
  <1>4. ImagesArePushed'
    BY ConfigStands DEF NamesInvariant, ImagesArePushed
  <1>5. NamesAreSound'
    BY <1>1, ConfigStands DEF NamesInvariant, NamesAreSound
  <1>6. PulledImageIsOwn'
    <2>1. ASSUME NEW s \in Requests, progress'[s] = "served"
          PROVE  \E i \in registry : i.address = Address(name[s][FALSE]) /\ i.content = Content(s)
      <3>1. CASE s = r
        <4>1. name[r][FALSE] = ImageName(r, FALSE)  BY NamesInMemory DEF NamesInvariant
        <4> QED  BY <1>1, <2>1, <3>1, <4>1
      <3>2. CASE s # r
        <4>1. progress[s] = "served"  BY <1>1, <2>1, <3>2
        <4> QED  BY <4>1 DEF NamesInvariant, PulledImageIsOwn
      <3> QED  BY <3>1, <3>2
    <2>2. \A s \in Requests : /\ Address(name[s][FALSE])' = Address(name[s][FALSE])
                              /\ Content(s)' = Content(s)
      BY ConfigStands DEF Address
    <2> QED  BY <2>1, <2>2 DEF PulledImageIsOwn
  <1> QED  BY <1>2, <1>3, <1>4, <1>5, <1>6 DEF NamesInvariant

\* An image that is found under a request's name is the request's own.
LEMMA CheckImageFindsOwn ==
    ASSUME ImageNamesAssumption, NamesInvariant, NEW r \in Requests, CheckImage(r)
    PROVE  NamesInvariant'
  <1>1. Sound(r)  BY NamesInMemory DEF CheckImage, NamesInvariant
  <1>2. CASE Found(r)
    <2>1. PICK i \in registry : i.address = Address(Asked(r))  BY <1>2 DEF Found
    <2>2. PICK s \in Requests :
              Sound(s) /\ i = [address |-> Address(ImageName(s, TRUE)), content |-> Content(s)]
      BY DEF NamesInvariant, ImagesArePushed
    <2>3. /\ Address(Asked(r)) = Address(ImageName(r, TRUE))
          /\ Address(ImageName(r, TRUE)) = Address(ImageName(r, FALSE))
      BY NamesInMemory, OneAddress DEF NamesInvariant, NamesAreApart
    <2>4. Content(r) = Content(s)
      BY <1>1, <2>1, <2>2, <2>3, AddressesTellApart DEF NamesInvariant, NamesComputed
    <2>5. i.address = Address(ImageName(r, FALSE)) /\ i.content = Content(r)
      BY <2>1, <2>2, <2>3, <2>4
    <2>6. Go(r, "served") /\ UNCHANGED <<config, name, registry>>  BY <1>2 DEF CheckImage
    <2> QED  BY <1>1, <2>5, <2>6, RequestGoesOn
  <1>3. CASE ~Found(r)
    <2>1. Go(r, "building") /\ UNCHANGED <<config, name, registry>>  BY <1>3 DEF CheckImage
    <2> QED  BY <1>1, <2>1, RequestGoesOn
  <1> QED  BY <1>2, <1>3

\* What is pushed replaces only images of the same content.
LEMMA PushImageReplacesOwn ==
    ASSUME ImageNamesAssumption, NamesInvariant, NEW r \in Requests, PushImage(r)
    PROVE  NamesInvariant'
  <1> DEFINE own == [address |-> Address(ImageName(r, TRUE)), content |-> Content(r)]
  <1>1. /\ progress' \in [Requests -> {"new", "failed", "building", "served"}]
        /\ progress'[r] = "served"
        /\ \A s \in Requests \ {r} : progress'[s] = progress[s]
    BY DEF PushImage, Go, NamesInvariant, NamesComputed
  <1>2. UNCHANGED <<config, name>>  BY DEF PushImage
  <1>3. Sound(r)  BY DEF PushImage, NamesInvariant, NamesAreSound
  <1>4. registry' = {i \in registry : i.address # own.address} \cup {own}
    <2>1. name[r][TRUE] = ImageName(r, TRUE)  BY NamesInMemory DEF NamesInvariant
    <2> QED  BY <2>1 DEF PushImage
  <1>5. own \in registry' /\ own.address = Address(ImageName(r, TRUE)) /\ own.content = Content(r)
    BY <1>4
  <1>6. \A i \in registry' : i = own \/ i \in registry  BY <1>4
  <1>7. \A i \in registry : i \in registry' \/ i.address = own.address  BY <1>4
  <1> HIDE DEF own
  <1>8. NamesAreApart'  BY <1>2, ConfigStands DEF NamesInvariant
  <1>9. NamesComputed'
    <2>1. name' = [s \in Requests |-> [b \in BOOLEAN |-> ImageName(s, b)']]
      BY <1>2, ConfigStands DEF NamesInvariant, NamesComputed
    <2> QED  BY <1>1, <1>2, <2>1 DEF NamesInvariant, NamesComputed
  <1>10. ImagesArePushed'
    <2>1. \A i \in registry' : \E s \in Requests :
              Sound(s) /\ i = [address |-> Address(ImageName(s, TRUE)), content |-> Content(s)]
      BY <1>3, <1>6 DEF NamesInvariant, ImagesArePushed, own
    <2> QED  BY <1>2, <2>1, ConfigStands DEF ImagesArePushed
  <1>11. NamesAreSound'
    BY <1>1, <1>2, <1>3, ConfigStands DEF NamesInvariant, NamesAreSound
  <1>12. PulledImageIsOwn'
    <2>1. ASSUME NEW s \in Requests, progress'[s] = "served"
          PROVE  \E i \in registry' : i.address = Address(name[s][FALSE]) /\ i.content = Content(s)
      <3>1. CASE s = r
        <4>1. name[r][FALSE] = ImageName(r, FALSE)  BY NamesInMemory DEF NamesInvariant
        <4>2. Address(ImageName(r, TRUE)) = Address(ImageName(r, FALSE))
          BY OneAddress DEF NamesInvariant, NamesAreApart
        <4> QED  BY <1>5, <3>1, <4>1, <4>2
      <3>2. CASE s # r
        <4>1. progress[s] = "served"  BY <1>1, <2>1, <3>2
        <4>2. PICK i \in registry : i.address = Address(name[s][FALSE]) /\ i.content = Content(s)
          BY <4>1 DEF NamesInvariant, PulledImageIsOwn
        <4>3. CASE i \in registry'  BY <4>2, <4>3
        <4>4. CASE i.address = own.address
          <5>1. /\ name[s][FALSE] = ImageName(s, FALSE)
                /\ Address(ImageName(s, TRUE)) = Address(ImageName(s, FALSE))
            BY NamesInMemory, OneAddress DEF NamesInvariant, NamesAreApart
          <5>2. Address(ImageName(r, TRUE)) = Address(ImageName(s, TRUE))
            BY <1>5, <4>2, <4>4, <5>1
          <5>3. Content(r) = Content(s)
            BY <1>3, <5>2, AddressesTellApart DEF NamesInvariant, NamesComputed
          <5> QED  BY <1>5, <4>2, <4>4, <5>3
        <4> QED  BY <1>7, <4>3, <4>4
      <3> QED  BY <3>1, <3>2
    <2>2. \A s \in Requests : /\ Address(name[s][FALSE])' = Address(name[s][FALSE])
                              /\ Content(s)' = Content(s)
      BY <1>2, ConfigStands DEF Address
    <2> QED  BY <2>1, <2>2 DEF PulledImageIsOwn
  <1> QED  BY <1>8, <1>9, <1>10, <1>11, <1>12 DEF NamesInvariant

-----------------------------------------------------------------------------
(* A served request's Bento is given the name of an image that was built   *)
(* from its own bento in its own mode, and no other request's build        *)
(* replaces it by another one: names without separators do not collide,    *)
(* digests and modes included.                                             *)
THEOREM PulledImagesAreOwn == Spec /\ NamesAreApart => []PulledImageIsOwn
  <1>1. Init /\ NamesAreApart => NamesInvariant  BY InitNames
  <1>2. NamesInvariant /\ [Next]_vars => NamesInvariant'
    <2>1. SUFFICES ASSUME NamesInvariant, [Next]_vars
                   PROVE  NamesInvariant'
      OBVIOUS
    <2>2. ASSUME NEW r \in Requests, CheckImage(r)  PROVE NamesInvariant'
      BY <2>1, <2>2, ImageNamesAssumption, CheckImageFindsOwn
    <2>3. ASSUME NEW r \in Requests, FailCheck(r)  PROVE NamesInvariant'
      <3>1. Go(r, "failed") /\ UNCHANGED <<config, name, registry>>  BY <2>3 DEF FailCheck
      <3> QED  BY <2>1, <3>1, RequestGoesOn
    <2>4. ASSUME NEW r \in Requests, Retry(r)  PROVE NamesInvariant'
      <3>1. Go(r, "new") /\ UNCHANGED <<config, name, registry>>  BY <2>4 DEF Retry
      <3> QED  BY <2>1, <3>1, RequestGoesOn
    <2>5. ASSUME NEW r \in Requests, PushImage(r)  PROVE NamesInvariant'
      BY <2>1, <2>5, ImageNamesAssumption, PushImageReplacesOwn
    <2>6. CASE UNCHANGED vars
      <3>1. UNCHANGED <<config, name, registry, progress>>  BY <2>6 DEF vars
      <3>2. NamesAreApart'  BY <2>1, <3>1, ConfigStands DEF NamesInvariant
      <3>3. name' = [s \in Requests |-> [b \in BOOLEAN |-> ImageName(s, b)']]
        BY <2>1, <3>1, ConfigStands DEF NamesInvariant, NamesComputed
      <3>4. NamesComputed'  BY <2>1, <3>1, <3>3 DEF NamesInvariant, NamesComputed
      <3>5. ImagesArePushed'  BY <2>1, <3>1, ConfigStands DEF NamesInvariant, ImagesArePushed
      <3>6. NamesAreSound'  BY <2>1, <3>1, ConfigStands DEF NamesInvariant, NamesAreSound
      <3>7. \A s \in Requests : /\ Address(name[s][FALSE])' = Address(name[s][FALSE])
                                /\ Content(s)' = Content(s)
        BY <3>1, ConfigStands DEF Address
      <3>8. PulledImageIsOwn'  BY <2>1, <3>1, <3>7 DEF NamesInvariant, PulledImageIsOwn
      <3> QED  BY <3>2, <3>4, <3>5, <3>6, <3>8 DEF NamesInvariant
    <2> QED  BY <2>1, <2>2, <2>3, <2>4, <2>5, <2>6 DEF Next, Done
  <1>3. NamesInvariant => PulledImageIsOwn  BY DEF NamesInvariant
  <1> QED  BY <1>1, <1>2, <1>3, PTL DEF Spec
=============================================================================
