----------------------- MODULE HeaderConversion_proofs -----------------------
(***************************************************************************)
(* The contract is sent all of a header that its verifier hashes: turned   *)
(* into messages and back, a light block is what it was, whatever its      *)
(* values, with its validators in Tendermint's order.                      *)
(***************************************************************************)
EXTENDS HeaderConversion, TLAPS

CONSTANT Value  \* what fields hold: numbers, hashes, keys, signatures

-----------------------------------------------------------------------------
(* Tendermint's own values *)

Times == [unix : Value, nanosecond : Value]
BlockIDs == [hash : Value, parts : [total : Value, hash : Value]]
Versions == [block : Value, app : Value]

Headers ==
  [version : Versions, chainID : Value, height : Value, time : Times,
   lastBlockID : BlockIDs, lastCommitHash : Value, dataHash : Value,
   validatorsHash : Value, nextValidatorsHash : Value, consensusHash : Value,
   appHash : Value, lastResultsHash : Value, evidenceHash : Value,
   proposerAddress : Value]

CommitSigs == [flag : Value, address : Value, timestamp : Times, signature : Value]

Commits ==
  [height : Value, round : Value, blockID : BlockIDs, signatures : Seq(CommitSigs)]

Validators == [pubKey : Value, power : Value]

\* What a client trusts, if there is one.
Trusts == [height : [revision : Value, height : Value], validators : Seq(Validators)]
NoTrust == <<>>

LightBlocks ==
  [header : Headers, commit : Commits, validators : Seq(Validators),
   trusted : {NoTrust} \union {<<t>> : t \in Trusts}]

\* The same block with its validators in Tendermint's order.
Ordered(b) ==
  [header |-> b.header, commit |-> b.commit, validators |-> ByPower(b.validators),
   trusted |->
     IF b.trusted = NoTrust THEN NoTrust
     ELSE <<[height |-> b.trusted[1].height,
             validators |-> ByPower(b.trusted[1].validators)]>>]

-----------------------------------------------------------------------------
(* There and back *)

LEMMA TimeBack ==
  ASSUME NEW t \in Times
  PROVE  Time(NewTimestampFromTime(t)) = t
BY DEF Time, NewTimestampFromTime, Times

LEMMA BlockIDBack ==
  ASSUME NEW id \in BlockIDs
  PROVE  BlockID(NewCanonicalBlockIDFromTm(id)) = id
BY DEF BlockID, NewCanonicalBlockIDFromTm, BlockIDs

\* Fourteen fields, none swapped or forgotten.
LEMMA HeaderBack ==
  ASSUME NEW h \in Headers
  PROVE  TmLightHeader(NewLightHeaderFromTm(h)) = h
<1>. DEFINE m == NewLightHeaderFromTm(h)
<1>1. h.time \in Times /\ h.lastBlockID \in BlockIDs /\ h.version \in Versions
  BY DEF Headers
<1>2. /\ m[1] = << <<h.version.block, h.version.app>> >> /\ m[2] = h.chainID /\ m[3] = h.height
      /\ m[4] = <<NewTimestampFromTime(h.time)>>
      /\ m[5] = <<NewCanonicalBlockIDFromTm(h.lastBlockID)>>
      /\ m[6] = h.lastCommitHash /\ m[7] = h.dataHash /\ m[8] = h.validatorsHash
      /\ m[9] = h.nextValidatorsHash /\ m[10] = h.consensusHash /\ m[11] = h.appHash
      /\ m[12] = h.lastResultsHash /\ m[13] = h.evidenceHash /\ m[14] = h.proposerAddress
  BY DEF NewLightHeaderFromTm
<1>. HIDE DEF m
<1>3. /\ [block |-> m[1][1][1], app |-> m[1][1][2]] = h.version
      /\ Time(m[4][1]) = h.time /\ BlockID(m[5][1]) = h.lastBlockID
  <2>1. [block |-> h.version.block, app |-> h.version.app] = h.version
    BY <1>1 DEF Versions
  <2>2. m[1][1] = <<h.version.block, h.version.app>> /\ m[4][1] = NewTimestampFromTime(h.time)
        /\ m[5][1] = NewCanonicalBlockIDFromTm(h.lastBlockID)
    BY <1>2
  <2>. QED
    BY <1>1, <2>1, <2>2, TimeBack, BlockIDBack
<1>4. TmLightHeader(m) = h
  BY <1>2, <1>3 DEF TmLightHeader, Headers
<1>. QED
  BY <1>4 DEF m

LEMMA CommitSigBack ==
  ASSUME NEW cs \in CommitSigs
  PROVE  TmCommitSig(NewCommitSigFromTm(cs)) = cs
<1>. DEFINE m == NewCommitSigFromTm(cs)
<1>1. /\ m[1] = cs.flag /\ m[2] = cs.address /\ m[4] = cs.signature
      /\ m[3] = <<NewTimestampFromTime(cs.timestamp)>>
  BY DEF NewCommitSigFromTm
<1>2. m[3] # <<>> /\ m[3][1] = NewTimestampFromTime(cs.timestamp)
  BY <1>1
<1>3. Time(m[3][1]) = cs.timestamp
  BY <1>2, TimeBack DEF CommitSigs
<1>. HIDE DEF m
<1>4. TmCommitSig(m) = cs
  BY <1>1, <1>2, <1>3 DEF TmCommitSig, CommitSigs
<1>. QED
  BY <1>4 DEF m

LEMMA CommitBack ==
  ASSUME NEW c \in Commits
  PROVE  TmCommit(NewCommitFromTm(c)) = c
<1>. DEFINE m == NewCommitFromTm(c)
<1>1. /\ m[1] = c.height /\ m[2] = c.round /\ m[3] = <<NewCanonicalBlockIDFromTm(c.blockID)>>
      /\ m[4] = [k \in DOMAIN c.signatures |-> NewCommitSigFromTm(c.signatures[k])]
  BY DEF NewCommitFromTm
<1>. HIDE DEF m
<1>2. BlockID(m[3][1]) = c.blockID
  <2>1. m[3][1] = NewCanonicalBlockIDFromTm(c.blockID) /\ c.blockID \in BlockIDs
    BY <1>1 DEF Commits
  <2>. QED
    BY <2>1, BlockIDBack
<1>3. [k \in DOMAIN m[4] |-> TmCommitSig(m[4][k])] = c.signatures
  <2>1. c.signatures \in Seq(CommitSigs)
    BY DEF Commits
  <2>2. DOMAIN m[4] = DOMAIN c.signatures
    BY <1>1
  <2>3. \A k \in DOMAIN c.signatures : TmCommitSig(m[4][k]) = c.signatures[k]
    BY <1>1, <2>1, CommitSigBack
  <2>4. c.signatures = [k \in DOMAIN c.signatures |-> c.signatures[k]]
    BY <2>1
  <2>. QED
    BY <2>2, <2>3, <2>4
<1>4. TmCommit(m) = c
  BY <1>1, <1>2, <1>3 DEF TmCommit, Commits
<1>. QED
  BY <1>4 DEF m

LEMMA ValidatorsBack ==
  ASSUME NEW vals \in Seq(Validators)
  PROVE  TmValidatorSet(NewValidatorSetFromTm(vals)) = ByPower(vals)
<1>. DEFINE m == NewValidatorSetFromTm(vals)[1]
            back == [k \in DOMAIN m |-> [pubKey |-> m[k][1], power |-> m[k][2]]]
<1>1. m = [k \in DOMAIN vals |-> <<vals[k].pubKey, vals[k].power>>]
  BY DEF NewValidatorSetFromTm
<1>2. \A k \in DOMAIN vals : vals[k] \in Validators
  OBVIOUS
<1>3. \A k \in DOMAIN vals : [pubKey |-> vals[k].pubKey, power |-> vals[k].power] = vals[k]
  BY <1>2 DEF Validators
<1>4. DOMAIN m = DOMAIN vals /\ \A k \in DOMAIN vals : m[k] = <<vals[k].pubKey, vals[k].power>>
  BY <1>1
<1>. HIDE DEF m
<1>5. vals = [k \in DOMAIN vals |-> vals[k]]
  OBVIOUS
<1>6. back = vals
  BY <1>3, <1>4, <1>5
<1>7. TmValidatorSet(NewValidatorSetFromTm(vals)) = ByPower(back)
  BY DEF TmValidatorSet, m
<1>. QED
  BY <1>6, <1>7

LEMMA SetBack ==
  ASSUME NEW vals \in Seq(Validators)
  PROVE  Optional(<<NewValidatorSetFromTm(vals)>>) = <<ByPower(vals)>>
<1>. DEFINE m == <<NewValidatorSetFromTm(vals)>>
<1>1. m # <<>> /\ m[1] = NewValidatorSetFromTm(vals)
  OBVIOUS
<1>. HIDE DEF m
<1>2. Optional(m) = <<ByPower(vals)>>
  BY <1>1, ValidatorsBack DEF Optional
<1>. QED
  BY <1>2 DEF m

\* What the contract can restore of any header, with what a client trusts or without
\* it, is the light block that the light client has verified, its validators in
\* Tendermint's order (NewTmHeader, and TmHeader.Header at the other end).
THEOREM NothingIsLost ==
  ASSUME NEW b \in LightBlocks
  PROVE  FromTmHeader(NewTmHeader(b)) = Verified(Ordered(b))
<1>. DEFINE m == NewTmHeader(b)
            r == Ordered(b)
<1>1. /\ b.header \in Headers /\ b.commit \in Commits /\ b.validators \in Seq(Validators)
      /\ b.trusted \in {NoTrust} \union {<<t>> : t \in Trusts}
  BY DEF LightBlocks
<1>2. /\ m[1][1][1][1] = NewLightHeaderFromTm(b.header)
      /\ m[1][1][2][1] = NewCommitFromTm(b.commit)
      /\ m[2] = <<NewValidatorSetFromTm(b.validators)>>
      /\ m[3] = Trust(b.trusted)[1] /\ m[4] = Trust(b.trusted)[2]
  BY DEF NewTmHeader
<1>3. /\ TmLightHeader(m[1][1][1][1]) = b.header /\ TmCommit(m[1][1][2][1]) = b.commit
      /\ Optional(m[2]) = <<ByPower(b.validators)>>
  BY <1>1, <1>2, HeaderBack, CommitBack, SetBack
<1>4. /\ r.header = b.header /\ r.commit = b.commit /\ r.validators = ByPower(b.validators)
      /\ r.trusted = IF b.trusted = NoTrust THEN NoTrust
                     ELSE <<[height |-> b.trusted[1].height,
                             validators |-> ByPower(b.trusted[1].validators)]>>
  BY DEF Ordered
<1>. HIDE DEF m, r
<1>5. CASE b.trusted = NoTrust
  <2>1. m[3] = <<>> /\ m[4] = <<>> /\ r.trusted = <<>>
    BY <1>2, <1>4, <1>5 DEF Trust, NoTrust
  <2>2. Optional(m[4]) = <<>>
    BY <2>1 DEF Optional
  <2>3. FromTmHeader(m) = Verified(r)
    BY <1>3, <1>4, <2>1, <2>2 DEF FromTmHeader, Verified
  <2>. QED
    BY <2>3 DEF m, r
<1>6. CASE b.trusted # NoTrust
  <2>1. PICK t \in Trusts : b.trusted = <<t>>
    BY <1>1, <1>6
  <2>2. b.trusted[1] = t /\ b.trusted # <<>>
    BY <2>1
  <2>3. /\ m[3] = << <<t.height.revision, t.height.height>> >>
        /\ m[4] = <<NewValidatorSetFromTm(t.validators)>>
    BY <1>2, <2>2 DEF Trust
  <2>4. m[3] # <<>> /\ m[3][1][1] = t.height.revision /\ m[3][1][2] = t.height.height
    BY <2>3
  <2>5. t.validators \in Seq(Validators) /\ t.height \in [revision : Value, height : Value]
    BY DEF Trusts
  <2>6. Optional(m[4]) = <<ByPower(t.validators)>>
    BY <2>3, <2>5, SetBack
  <2>7. [revision |-> m[3][1][1], height |-> m[3][1][2]] = t.height
    BY <2>4, <2>5
  <2>8. /\ r.trusted = <<[height |-> t.height, validators |-> ByPower(t.validators)]>>
        /\ r.trusted # <<>> /\ r.trusted[1].height = t.height
        /\ r.trusted[1].validators = ByPower(t.validators)
    BY <1>4, <1>6, <2>2
  <2>9. FromTmHeader(m) = Verified(r)
    BY <1>3, <1>4, <2>4, <2>6, <2>7, <2>8 DEF FromTmHeader, Verified
  <2>. QED
    BY <2>9 DEF m, r
<1>. QED
  BY <1>5, <1>6
=============================================================================
