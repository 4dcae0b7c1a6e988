--------------------------- MODULE HeaderConversion ---------------------------
(***************************************************************************)
(* From Tendermint's own headers, which the light client has verified, to  *)
(* the messages the contract is sent, and back: relayer/chains/tendermint/ *)
(* types.  Tendermint's values are records, the messages those of          *)
(* ProtoMessages.  The priorities of validators are not carried over, and  *)
(* their addresses follow from their keys.                                 *)
(***************************************************************************)
EXTENDS ProtoMessages, TLC

LOCAL INSTANCE Functions

\* The year 1.
ZeroTime == [unix |-> -100, nanosecond |-> 0]

NewTimestampFromTime(t) == <<t.unix, t.nanosecond>>
Time(m) == [unix |-> m[1], nanosecond |-> m[2]]

NewCanonicalBlockIDFromTm(id) == <<id.hash, << <<id.parts.total, id.parts.hash>> >> >>
BlockID(m) == [hash |-> m[1], parts |-> [total |-> m[2][1][1], hash |-> m[2][1][2]]]

\* Absent votes have Tendermint's zero time.
NewCommitSigFromTm(cs) ==
  <<cs.flag, cs.address, <<NewTimestampFromTime(cs.timestamp)>>, cs.signature>>
TmCommitSig(m) ==
  [flag |-> m[1], address |-> m[2], signature |-> m[4],
   timestamp |-> IF m[3] = <<>> THEN ZeroTime ELSE Time(m[3][1])]

NewCommitFromTm(c) ==
  <<c.height, c.round, <<NewCanonicalBlockIDFromTm(c.blockID)>>,
    [k \in DOMAIN c.signatures |-> NewCommitSigFromTm(c.signatures[k])]>>
TmCommit(m) ==
  [height |-> m[1], round |-> m[2], blockID |-> BlockID(m[3][1]),
   signatures |-> [k \in DOMAIN m[4] |-> TmCommitSig(m[4][k])]]

NewLightHeaderFromTm_Swapped(h) ==   \* Bug: the validators' hash in both places
  << << <<h.version.block, h.version.app>> >>, h.chainID, h.height,
     <<NewTimestampFromTime(h.time)>>, <<NewCanonicalBlockIDFromTm(h.lastBlockID)>>,
     h.lastCommitHash, h.dataHash, h.validatorsHash, h.validatorsHash,
     h.consensusHash, h.appHash, h.lastResultsHash, h.evidenceHash,
     h.proposerAddress>>

NewLightHeaderFromTm(h) ==
  << << <<h.version.block, h.version.app>> >>, h.chainID, h.height,
     <<NewTimestampFromTime(h.time)>>, <<NewCanonicalBlockIDFromTm(h.lastBlockID)>>,
     h.lastCommitHash, h.dataHash, h.validatorsHash, h.nextValidatorsHash,
     h.consensusHash, h.appHash, h.lastResultsHash, h.evidenceHash,
     h.proposerAddress>>

TmLightHeader(m) ==
  [version |-> [block |-> m[1][1][1], app |-> m[1][1][2]], chainID |-> m[2],
   height |-> m[3], time |-> Time(m[4][1]), lastBlockID |-> BlockID(m[5][1]),
   lastCommitHash |-> m[6], dataHash |-> m[7], validatorsHash |-> m[8],
   nextValidatorsHash |-> m[9], consensusHash |-> m[10], appHash |-> m[11],
   lastResultsHash |-> m[12], evidenceHash |-> m[13], proposerAddress |-> m[14]]

TotalVotingPower(vals) == FoldFunction(LAMBDA v, sum : v.power + sum, 0, vals)

NewValidatorSetFromTm(vals) ==
  <<[k \in DOMAIN vals |-> <<vals[k].pubKey, vals[k].power>>], TotalVotingPower(vals)>>

\* Tendermint orders validators by power, those of equal power by their address
\* (here their key).
ByPower(vals) ==
  SortSeq(vals, LAMBDA v, w : \/ v.power > w.power
                              \/ v.power = w.power /\ v.pubKey[1] < w.pubKey[1])

\* It orders them again, and adds up the power itself.  No validators, a nil slice,
\* are an empty set.
TmValidatorSet(m) ==
  ByPower([k \in DOMAIN m[1] |-> [pubKey |-> m[1][k][1], power |-> m[1][k][2]]])

\* SetupHeader adds what the contract's client trusts: a height, and the validators
\* of it.
Trust(trusted) ==
  IF trusted = <<>> THEN << <<>>, <<>> >>
  ELSE LET t == trusted[1]
       IN << << <<t.height.revision, t.height.height>> >>,
             <<NewValidatorSetFromTm(t.validators)>> >>

\* What UpdateLightWithHeader makes of a light block, to create a client with it, or
\* for SetupHeader to complete.
NewTmHeader(b) ==
  << << << <<NewLightHeaderFromTm(b.header)>>, <<NewCommitFromTm(b.commit)>> >> >>,
     <<NewValidatorSetFromTm(b.validators)>>, Trust(b.trusted)[1], Trust(b.trusted)[2]>>

ZeroHeight == [revision |-> 0, height |-> 0]

\* A set of validators, or nil for nil.
Optional(m) == IF m = <<>> THEN <<>> ELSE <<TmValidatorSet(m[1])>>

\* TmHeader.Header.
FromTmHeader(m) ==
  [header |-> TmLightHeader(m[1][1][1][1]), commit |-> TmCommit(m[1][1][2][1]),
   validators |-> Optional(m[2]), trustedValidators |-> Optional(m[4]),
   trustedHeight |->
     IF m[3] = <<>> THEN ZeroHeight
     ELSE [revision |-> m[3][1][1], height |-> m[3][1][2]]]

\* The header of a light block, as ibc-go's own relayers send it.
Verified(b) ==
  [header |-> b.header, commit |-> b.commit, validators |-> <<b.validators>>,
   trustedHeight |-> IF b.trusted = <<>> THEN ZeroHeight ELSE b.trusted[1].height,
   trustedValidators |->
     IF b.trusted = <<>> THEN <<>> ELSE <<b.trusted[1].validators>>]

-----------------------------------------------------------------------------
(* Light blocks to try: the first of a chain, with an empty last block, and a   *)
(* later one whose commit has a vote, an absent one and one for nil; with what  *)
(* a client trusts, or without it, as a client is created with it.             *)

SampleID(x) == [hash |-> <<x, 1>>, parts |-> [total |-> x, hash |-> <<x, 2>>]]
NoID == [hash |-> <<>>, parts |-> [total |-> 0, hash |-> <<>>]]

SampleHeader(height, last) ==
  [version |-> [block |-> 11, app |-> 0], chainID |-> <<1>>, height |-> height,
   time |-> [unix |-> 77, nanosecond |-> 99], lastBlockID |-> last,
   lastCommitHash |-> <<2>>, dataHash |-> <<3>>, validatorsHash |-> <<4>>,
   nextValidatorsHash |-> <<5>>, consensusHash |-> <<6>>, appHash |-> <<7>>,
   lastResultsHash |-> <<8>>, evidenceHash |-> <<9>>, proposerAddress |-> <<10>>]

SampleSig(flag) ==
  IF flag = 1
  THEN [flag |-> 1, address |-> <<>>, timestamp |-> ZeroTime, signature |-> <<>>]
  ELSE [flag |-> flag, address |-> <<flag>>, signature |-> <<flag, 8>>,
        timestamp |-> [unix |-> 78, nanosecond |-> flag]]

SampleValidators ==
  {<<[pubKey |-> <<1>>, power |-> 100]>>,
   <<[pubKey |-> <<2>>, power |-> 300], [pubKey |-> <<1>>, power |-> 20],
     [pubKey |-> <<3>>, power |-> 20]>>}

SampleBlocks ==
  [header : {SampleHeader(1, NoID), SampleHeader(9, SampleID(3))},
   commit : [height : {9}, round : {0, 2}, blockID : {SampleID(4)},
             signatures : {<<SampleSig(2)>>,
                           <<SampleSig(1), SampleSig(2), SampleSig(3)>>}],
   validators : SampleValidators,
   trusted :
     {<<>>} \union
     {<<t>> : t \in [height : {[revision |-> 0, height |-> 1],
                             [revision |-> 4, height |-> 300]},
                    validators : SampleValidators]}]
=============================================================================
