------------------------------- MODULE Schemas -------------------------------
(***************************************************************************)
(* The types of packages/godwoken/schemas/index.js, one definition per     *)
(* generated class: the order, names and types of the fields are those the *)
(* class's serialiser writes, its validate() checks and its getters read.  *)
(* They follow one another so that a type comes after those it is made of. *)
(***************************************************************************)
EXTENDS Molecule

Uint32 == ByteArray(4)
Uint32Vec == FixVec(Uint32)
Byte32 == ByteArray(32)
Uint64 == ByteArray(8)
BlockMerkleState == Struct(<< <<"merkle_root", Byte32>>, <<"count", Uint64>> >>)
AccountMerkleState == Struct(<< <<"merkle_root", Byte32>>, <<"count", Uint32>> >>)
GlobalStateV0 == Struct(<< <<"rollup_config_hash", Byte32>>, <<"account", AccountMerkleState>>,
  <<"block", BlockMerkleState>>, <<"reverted_block_root", Byte32>>, <<"tip_block_hash", Byte32>>,
  <<"last_finalized_block_number", Uint64>>, <<"status", Byte>> >>)
GlobalState == Struct(<< <<"rollup_config_hash", Byte32>>, <<"account", AccountMerkleState>>,
  <<"block", BlockMerkleState>>, <<"reverted_block_root", Byte32>>, <<"tip_block_hash", Byte32>>,
  <<"tip_block_timestamp", Uint64>>, <<"last_finalized_block_number", Uint64>>,
  <<"status", Byte>>, <<"version", Byte>> >>)
AllowedTypeHash == Struct(<< <<"type_", Byte>>, <<"hash", Byte32>> >>)
AllowedTypeHashVec == FixVec(AllowedTypeHash)
RollupConfig == Table(<< <<"l1_sudt_script_type_hash", Byte32>>,
  <<"custodian_script_type_hash", Byte32>>, <<"deposit_script_type_hash", Byte32>>,
  <<"withdrawal_script_type_hash", Byte32>>, <<"challenge_script_type_hash", Byte32>>,
  <<"stake_script_type_hash", Byte32>>, <<"l2_sudt_validator_script_type_hash", Byte32>>,
  <<"burn_lock_hash", Byte32>>, <<"required_staking_capacity", Uint64>>,
  <<"challenge_maturity_blocks", Uint64>>, <<"finality_blocks", Uint64>>,
  <<"reward_burn_rate", Byte>>, <<"chain_id", Uint64>>,
  <<"allowed_eoa_type_hashes", AllowedTypeHashVec>>,
  <<"allowed_contract_type_hashes", AllowedTypeHashVec>> >>)
Bytes == FixVec(Byte)
RawL2Transaction == Table(<< <<"chain_id", Uint64>>, <<"from_id", Uint32>>, <<"to_id", Uint32>>,
  <<"nonce", Uint32>>, <<"args", Bytes>> >>)
L2Transaction == Table(<< <<"raw", RawL2Transaction>>, <<"signature", Bytes>> >>)
L2TransactionVec == DynVec(L2Transaction)
SubmitTransactions == Struct(<< <<"tx_witness_root", Byte32>>, <<"tx_count", Uint32>>,
  <<"prev_state_checkpoint", Byte32>> >>)
SubmitWithdrawals == Struct(<< <<"withdrawal_witness_root", Byte32>>,
  <<"withdrawal_count", Uint32>> >>)
Byte32Vec == FixVec(Byte32)
RawL2Block == Table(<< <<"number", Uint64>>, <<"block_producer", Bytes>>,
  <<"parent_block_hash", Byte32>>, <<"stake_cell_owner_lock_hash", Byte32>>,
  <<"timestamp", Uint64>>, <<"prev_account", AccountMerkleState>>,
  <<"post_account", AccountMerkleState>>, <<"state_checkpoint_list", Byte32Vec>>,
  <<"submit_withdrawals", SubmitWithdrawals>>, <<"submit_transactions", SubmitTransactions>> >>)
RawL2BlockVec == DynVec(RawL2Block)
KVPair == Struct(<< <<"k", Byte32>>, <<"v", Byte32>> >>)
KVPairVec == FixVec(KVPair)
Uint128 == ByteArray(16)
RawWithdrawalRequest == Struct(<< <<"nonce", Uint32>>, <<"chain_id", Uint64>>,
  <<"capacity", Uint64>>, <<"amount", Uint128>>, <<"sudt_script_hash", Byte32>>,
  <<"account_script_hash", Byte32>>, <<"registry_id", Uint32>>, <<"owner_lock_hash", Byte32>>,
  <<"fee", Uint128>> >>)
WithdrawalRequest == Table(<< <<"raw", RawWithdrawalRequest>>, <<"signature", Bytes>> >>)
WithdrawalRequestVec == DynVec(WithdrawalRequest)
L2Block == Table(<< <<"raw", RawL2Block>>, <<"kv_state", KVPairVec>>, <<"kv_state_proof", Bytes>>,
  <<"transactions", L2TransactionVec>>, <<"block_proof", Bytes>>,
  <<"withdrawals", WithdrawalRequestVec>> >>)
Script == Table(<< <<"code_hash", Byte32>>, <<"hash_type", Byte>>, <<"args", Bytes>> >>)
DepositRequest == Table(<< <<"capacity", Uint64>>, <<"amount", Uint128>>,
  <<"sudt_script_hash", Byte32>>, <<"script", Script>>, <<"registry_id", Uint32>> >>)
DepositRequestVec == DynVec(DepositRequest)
BlockInfo == Table(<< <<"block_producer", Bytes>>, <<"number", Uint64>>, <<"timestamp", Uint64>> >>)
DepositLockArgs == Table(<< <<"owner_lock_hash", Byte32>>, <<"layer2_lock", Script>>,
  <<"cancel_timeout", Uint64>>, <<"registry_id", Uint32>> >>)
CustodianLockArgs == Table(<< <<"deposit_block_hash", Byte32>>,
  <<"deposit_block_number", Uint64>>, <<"deposit_lock_args", DepositLockArgs>> >>)
UnlockCustodianViaRevertWitness == Struct(<< <<"deposit_lock_hash", Byte32>> >>)
WithdrawalLockArgs == Struct(<< <<"withdrawal_block_hash", Byte32>>,
  <<"withdrawal_block_number", Uint64>>, <<"account_script_hash", Byte32>>,
  <<"owner_lock_hash", Byte32>> >>)
UnlockWithdrawalViaFinalize == Table(<<>>)
UnlockWithdrawalViaRevert == Struct(<< <<"custodian_lock_hash", Byte32>> >>)
UnlockWithdrawalWitness == Union(<<UnlockWithdrawalViaFinalize, UnlockWithdrawalViaRevert>>)
StakeLockArgs == Struct(<< <<"owner_lock_hash", Byte32>>, <<"stake_block_number", Uint64>> >>)
Fee == Struct(<< <<"registry_id", Uint32>>, <<"amount", Uint128>> >>)
CreateAccount == Table(<< <<"script", Script>>, <<"fee", Fee>> >>)
ScriptVec == DynVec(Script)
BatchCreateEthAccounts == Table(<< <<"scripts", ScriptVec>>, <<"fee", Fee>> >>)
MetaContractArgs == Union(<<CreateAccount, BatchCreateEthAccounts>>)
SUDTQuery == Table(<< <<"address", Bytes>> >>)
Uint256 == ByteArray(32)
SUDTTransfer == Table(<< <<"to_address", Bytes>>, <<"amount", Uint256>>, <<"fee", Fee>> >>)
SUDTArgs == Union(<<SUDTQuery, SUDTTransfer>>)
ChallengeTarget == Struct(<< <<"block_hash", Byte32>>, <<"target_index", Uint32>>,
  <<"target_type", Byte>> >>)
ChallengeLockArgs == Table(<< <<"target", ChallengeTarget>>, <<"rewards_receiver_lock", Script>> >>)
ChallengeWitness == Table(<< <<"raw_l2block", RawL2Block>>, <<"block_proof", Bytes>> >>)
BlockHashEntry == Struct(<< <<"number", Uint64>>, <<"hash", Byte32>> >>)
BlockHashEntryVec == FixVec(BlockHashEntry)
CKBMerkleProof == Table(<< <<"indices", Uint32Vec>>, <<"lemmas", Byte32Vec>> >>)
BytesVec == DynVec(Bytes)
CCTransactionWitness == Table(<< <<"l2tx", L2Transaction>>, <<"raw_l2block", RawL2Block>>,
  <<"tx_proof", CKBMerkleProof>>, <<"kv_state_proof", Bytes>>, <<"block_hashes_proof", Bytes>>,
  <<"account_count", Uint32>>, <<"kv_state", KVPairVec>>, <<"load_data", BytesVec>>,
  <<"scripts", ScriptVec>>, <<"return_data_hash", Byte32>>, <<"block_hashes", BlockHashEntryVec>> >>)
CCTransactionSignatureWitness == Table(<< <<"raw_l2block", RawL2Block>>,
  <<"l2tx", L2Transaction>>, <<"tx_proof", CKBMerkleProof>>, <<"kv_state", KVPairVec>>,
  <<"kv_state_proof", Bytes>>, <<"account_count", Uint32>>, <<"sender", Script>>,
  <<"receiver", Script>> >>)
CCWithdrawalWitness == Table(<< <<"raw_l2block", RawL2Block>>,
  <<"withdrawal", WithdrawalRequest>>, <<"sender", Script>>, <<"owner_lock", Script>>,
  <<"withdrawal_proof", CKBMerkleProof>>, <<"kv_state_proof", Bytes>>, <<"kv_state", KVPairVec>>,
  <<"account_count", Uint32>> >>)
RollupSubmitBlock == Table(<< <<"block", L2Block>>, <<"reverted_block_hashes", Byte32Vec>>,
  <<"reverted_block_proof", Bytes>> >>)
RollupEnterChallenge == Table(<< <<"witness", ChallengeWitness>> >>)
RollupCancelChallenge == Table(<<>>)
RollupRevert == Table(<< <<"reverted_blocks", RawL2BlockVec>>, <<"block_proof", Bytes>>,
  <<"reverted_block_proof", Bytes>>, <<"new_tip_block", RawL2Block>> >>)
RollupAction == Union(<<RollupSubmitBlock, RollupEnterChallenge, RollupCancelChallenge,
  RollupRevert>>)
Byte20 == ByteArray(20)
EthToGw == Struct(<< <<"eth_address", Byte20>> >>)
GwToEth == Struct(<< <<"gw_script_hash", Byte32>> >>)
SetMapping == Struct(<< <<"gw_script_hash", Byte32>>, <<"fee", Fee>> >>)
BatchSetMapping == Table(<< <<"gw_script_hashes", Byte32Vec>>, <<"fee", Fee>> >>)
ETHAddrRegArgs == Union(<<EthToGw, GwToEth, SetMapping, BatchSetMapping>>)
Uint16 == ByteArray(2)
BytesOpt == Option(Bytes)
ScriptOpt == Option(Script)
ProposalShortId == ByteArray(10)
RawHeader == Struct(<< <<"version", Uint32>>, <<"compact_target", Uint32>>,
  <<"timestamp", Uint64>>, <<"number", Uint64>>, <<"epoch", Uint64>>, <<"parent_hash", Byte32>>,
  <<"transactions_root", Byte32>>, <<"proposals_hash", Byte32>>, <<"extra_hash", Byte32>>,
  <<"dao", Byte32>> >>)
Header == Struct(<< <<"raw", RawHeader>>, <<"nonce", Uint128>> >>)
ProposalShortIdVec == FixVec(ProposalShortId)
UncleBlock == Table(<< <<"header", Header>>, <<"proposals", ProposalShortIdVec>> >>)
UncleBlockVec == DynVec(UncleBlock)
OutPoint == Struct(<< <<"tx_hash", Byte32>>, <<"index", Uint32>> >>)
CellDep == Struct(<< <<"out_point", OutPoint>>, <<"dep_type", Byte>> >>)
CellDepVec == FixVec(CellDep)
CellInput == Struct(<< <<"since", Uint64>>, <<"previous_output", OutPoint>> >>)
CellInputVec == FixVec(CellInput)
CellOutput == Table(<< <<"capacity", Uint64>>, <<"lock", Script>>, <<"type_", ScriptOpt>> >>)
CellOutputVec == DynVec(CellOutput)
RawTransaction == Table(<< <<"version", Uint32>>, <<"cell_deps", CellDepVec>>,
  <<"header_deps", Byte32Vec>>, <<"inputs", CellInputVec>>, <<"outputs", CellOutputVec>>,
  <<"outputs_data", BytesVec>> >>)
Transaction == Table(<< <<"raw", RawTransaction>>, <<"witnesses", BytesVec>> >>)
TransactionVec == DynVec(Transaction)
Block == Table(<< <<"header", Header>>, <<"uncles", UncleBlockVec>>,
  <<"transactions", TransactionVec>>, <<"proposals", ProposalShortIdVec>> >>)
BlockV1 == Table(<< <<"header", Header>>, <<"uncles", UncleBlockVec>>,
  <<"transactions", TransactionVec>>, <<"proposals", ProposalShortIdVec>>, <<"extension", Bytes>> >>)
CellbaseWitness == Table(<< <<"lock", Script>>, <<"message", Bytes>> >>)
WitnessArgs == Table(<< <<"lock", BytesOpt>>, <<"input_type", BytesOpt>>,
  <<"output_type", BytesOpt>> >>)

\* The classes by name.
Schemas == [
  Uint32 |-> Uint32, Uint32Vec |-> Uint32Vec, Byte32 |-> Byte32, Uint64 |-> Uint64,
  BlockMerkleState |-> BlockMerkleState, AccountMerkleState |-> AccountMerkleState,
  GlobalStateV0 |-> GlobalStateV0, GlobalState |-> GlobalState,
  AllowedTypeHash |-> AllowedTypeHash, AllowedTypeHashVec |-> AllowedTypeHashVec,
  RollupConfig |-> RollupConfig, Bytes |-> Bytes, RawL2Transaction |-> RawL2Transaction,
  L2Transaction |-> L2Transaction, L2TransactionVec |-> L2TransactionVec,
  SubmitTransactions |-> SubmitTransactions, SubmitWithdrawals |-> SubmitWithdrawals,
  Byte32Vec |-> Byte32Vec, RawL2Block |-> RawL2Block, RawL2BlockVec |-> RawL2BlockVec,
  KVPair |-> KVPair, KVPairVec |-> KVPairVec, Uint128 |-> Uint128,
  RawWithdrawalRequest |-> RawWithdrawalRequest, WithdrawalRequest |-> WithdrawalRequest,
  WithdrawalRequestVec |-> WithdrawalRequestVec, L2Block |-> L2Block, Script |-> Script,
  DepositRequest |-> DepositRequest, DepositRequestVec |-> DepositRequestVec,
  BlockInfo |-> BlockInfo, DepositLockArgs |-> DepositLockArgs,
  CustodianLockArgs |-> CustodianLockArgs,
  UnlockCustodianViaRevertWitness |-> UnlockCustodianViaRevertWitness,
  WithdrawalLockArgs |-> WithdrawalLockArgs,
  UnlockWithdrawalViaFinalize |-> UnlockWithdrawalViaFinalize,
  UnlockWithdrawalViaRevert |-> UnlockWithdrawalViaRevert,
  UnlockWithdrawalWitness |-> UnlockWithdrawalWitness, StakeLockArgs |-> StakeLockArgs,
  Fee |-> Fee, CreateAccount |-> CreateAccount, ScriptVec |-> ScriptVec,
  BatchCreateEthAccounts |-> BatchCreateEthAccounts, MetaContractArgs |-> MetaContractArgs,
  SUDTQuery |-> SUDTQuery, Uint256 |-> Uint256, SUDTTransfer |-> SUDTTransfer,
  SUDTArgs |-> SUDTArgs, ChallengeTarget |-> ChallengeTarget,
  ChallengeLockArgs |-> ChallengeLockArgs, ChallengeWitness |-> ChallengeWitness,
  BlockHashEntry |-> BlockHashEntry, BlockHashEntryVec |-> BlockHashEntryVec,
  CKBMerkleProof |-> CKBMerkleProof, BytesVec |-> BytesVec,
  CCTransactionWitness |-> CCTransactionWitness,
  CCTransactionSignatureWitness |-> CCTransactionSignatureWitness,
  CCWithdrawalWitness |-> CCWithdrawalWitness, RollupSubmitBlock |-> RollupSubmitBlock,
  RollupEnterChallenge |-> RollupEnterChallenge, RollupCancelChallenge |-> RollupCancelChallenge,
  RollupRevert |-> RollupRevert, RollupAction |-> RollupAction, Byte20 |-> Byte20,
  EthToGw |-> EthToGw, GwToEth |-> GwToEth, SetMapping |-> SetMapping,
  BatchSetMapping |-> BatchSetMapping, ETHAddrRegArgs |-> ETHAddrRegArgs, Uint16 |-> Uint16,
  BytesOpt |-> BytesOpt, ScriptOpt |-> ScriptOpt, ProposalShortId |-> ProposalShortId,
  RawHeader |-> RawHeader, Header |-> Header, ProposalShortIdVec |-> ProposalShortIdVec,
  UncleBlock |-> UncleBlock, UncleBlockVec |-> UncleBlockVec, OutPoint |-> OutPoint,
  CellDep |-> CellDep, CellDepVec |-> CellDepVec, CellInput |-> CellInput,
  CellInputVec |-> CellInputVec, CellOutput |-> CellOutput, CellOutputVec |-> CellOutputVec,
  RawTransaction |-> RawTransaction, Transaction |-> Transaction,
  TransactionVec |-> TransactionVec, Block |-> Block, BlockV1 |-> BlockV1,
  CellbaseWitness |-> CellbaseWitness, WitnessArgs |-> WitnessArgs]

=============================================================================
