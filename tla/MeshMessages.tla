----------------------------- MODULE MeshMessages -----------------------------
(***************************************************************************)
(* The messages of x/meshsecurity/types: for each one the table of its     *)
(* MarshalToSizedBuffer, of its Size and of its Unmarshal (see WireCodec). *)
(***************************************************************************)
EXTENDS WireCodec

Put(tag, kind, of) == [tag |-> tag, kind |-> kind, of |-> of]
Add(kind, of) == [kind |-> kind, of |-> of]
Take(wire, kind, of) ==
    [wire |-> wire, kind |-> kind, of |-> of,
     zero |-> IF kind = "uint32" THEN 0 ELSE IF kind = "message" THEN Zero(of) ELSE <<>>]

\* A message type with the three functions the code generator made for it.
Type(marshal, size, unmarshal) ==
    [marshal |-> marshal, size |-> size, unmarshal |-> unmarshal]

\* cosmos.base.v1beta1.Coin (external); the amount is an sdk.Int.
Coin_Marshal == <<Put(10, "string", <<>>), Put(18, "int", <<>>)>>
Coin_Size == <<Add("string", <<>>), Add("int", <<>>)>>
Coin_Unmarshal == <<Take(2, "string", <<>>), Take(2, "int", <<>>)>>

\* tx.pb.go
MsgSetVirtualStakingMaxCap_Marshal ==
    <<Put(10, "string", <<>>),           \* Authority
      Put(18, "string", <<>>),           \* Contract
      Put(26, "message", Coin_Marshal)>> \* MaxCap

MsgSetVirtualStakingMaxCap_Size ==
    <<Add("string", <<>>), Add("string", <<>>), Add("message", Coin_Size)>>

MsgSetVirtualStakingMaxCap_Unmarshal ==
    <<Take(2, "string", <<>>), Take(2, "string", <<>>),
      Take(2, "message", Coin_Unmarshal)>>

MsgSetVirtualStakingMaxCapResponse_Marshal == <<>>
MsgSetVirtualStakingMaxCapResponse_Size == <<>>
MsgSetVirtualStakingMaxCapResponse_Unmarshal == <<>>

\* meshsecurity.pb.go
VirtualStakingMaxCapInfo_Marshal ==
    <<Put(10, "string", <<>>),           \* Contract
      Put(18, "message", Coin_Marshal),  \* Delegated
      Put(26, "message", Coin_Marshal)>> \* Cap

VirtualStakingMaxCapInfo_Size ==
    <<Add("string", <<>>), Add("message", Coin_Size), Add("message", Coin_Size)>>

VirtualStakingMaxCapInfo_Unmarshal ==
    <<Take(2, "string", <<>>), Take(2, "message", Coin_Unmarshal),
      Take(2, "message", Coin_Unmarshal)>>

Params_Marshal ==
    <<Put(10, "message", Coin_Marshal),  \* TotalContractsMaxCap
      Put(16, "uint32", <<>>),           \* EpochLength
      Put(24, "uint32", <<>>)>>          \* MaxGasEndBlocker

Params_Size ==
    <<Add("message", Coin_Size), Add("uint32", <<>>), Add("uint32", <<>>)>>

Params_Unmarshal ==
    <<Take(2, "message", Coin_Unmarshal), Take(0, "uint32", <<>>),
      Take(0, "uint32", <<>>)>>

\* genesis.pb.go
GenesisState_Marshal == <<Put(10, "message", Params_Marshal)>>
GenesisState_Size == <<Add("message", Params_Size)>>
GenesisState_Unmarshal == <<Take(2, "message", Params_Unmarshal)>>

\* scheduler.pb.go
ValidatorAddress_Marshal == <<Put(10, "string", <<>>)>>
ValidatorAddress_Size == <<Add("string", <<>>)>>
ValidatorAddress_Unmarshal == <<Take(2, "string", <<>>)>>

\* query.pb.go
QueryVirtualStakingMaxCapLimitRequest_Marshal == <<Put(10, "string", <<>>)>>
QueryVirtualStakingMaxCapLimitRequest_Size == <<Add("string", <<>>)>>
QueryVirtualStakingMaxCapLimitRequest_Unmarshal == <<Take(2, "string", <<>>)>>

QueryVirtualStakingMaxCapLimitResponse_Marshal ==
    <<Put(10, "message", Coin_Marshal),  \* Delegated
      Put(18, "message", Coin_Marshal)>> \* Cap

QueryVirtualStakingMaxCapLimitResponse_Size ==
    <<Add("message", Coin_Size), Add("message", Coin_Size)>>

QueryVirtualStakingMaxCapLimitResponse_Unmarshal ==
    <<Take(2, "message", Coin_Unmarshal), Take(2, "message", Coin_Unmarshal)>>

QueryVirtualStakingMaxCapLimitsRequest_Marshal == <<>>
QueryVirtualStakingMaxCapLimitsRequest_Size == <<>>
QueryVirtualStakingMaxCapLimitsRequest_Unmarshal == <<>>

QueryVirtualStakingMaxCapLimitsResponse_Marshal ==
    <<Put(10, "repeated", VirtualStakingMaxCapInfo_Marshal)>>

QueryVirtualStakingMaxCapLimitsResponse_Size ==
    <<Add("repeated", VirtualStakingMaxCapInfo_Size)>>

QueryVirtualStakingMaxCapLimitsResponse_Unmarshal ==
    <<Take(2, "repeated", VirtualStakingMaxCapInfo_Unmarshal)>>

QueryParamsRequest_Marshal == <<>>
QueryParamsRequest_Size == <<>>
QueryParamsRequest_Unmarshal == <<>>

QueryParamsResponse_Marshal == <<Put(10, "message", Params_Marshal)>>
QueryParamsResponse_Size == <<Add("message", Params_Size)>>
QueryParamsResponse_Unmarshal == <<Take(2, "message", Params_Unmarshal)>>

MsgSetVirtualStakingMaxCap ==
    Type(MsgSetVirtualStakingMaxCap_Marshal, MsgSetVirtualStakingMaxCap_Size,
         MsgSetVirtualStakingMaxCap_Unmarshal)
MsgSetVirtualStakingMaxCapResponse ==
    Type(MsgSetVirtualStakingMaxCapResponse_Marshal,
         MsgSetVirtualStakingMaxCapResponse_Size,
         MsgSetVirtualStakingMaxCapResponse_Unmarshal)
VirtualStakingMaxCapInfo ==
    Type(VirtualStakingMaxCapInfo_Marshal, VirtualStakingMaxCapInfo_Size,
         VirtualStakingMaxCapInfo_Unmarshal)
Params == Type(Params_Marshal, Params_Size, Params_Unmarshal)
GenesisState ==
    Type(GenesisState_Marshal, GenesisState_Size, GenesisState_Unmarshal)
ValidatorAddress ==
    Type(ValidatorAddress_Marshal, ValidatorAddress_Size,
         ValidatorAddress_Unmarshal)
QueryVirtualStakingMaxCapLimitRequest ==
    Type(QueryVirtualStakingMaxCapLimitRequest_Marshal,
         QueryVirtualStakingMaxCapLimitRequest_Size,
         QueryVirtualStakingMaxCapLimitRequest_Unmarshal)
QueryVirtualStakingMaxCapLimitResponse ==
    Type(QueryVirtualStakingMaxCapLimitResponse_Marshal,
         QueryVirtualStakingMaxCapLimitResponse_Size,
         QueryVirtualStakingMaxCapLimitResponse_Unmarshal)
QueryVirtualStakingMaxCapLimitsRequest ==
    Type(QueryVirtualStakingMaxCapLimitsRequest_Marshal,
         QueryVirtualStakingMaxCapLimitsRequest_Size,
         QueryVirtualStakingMaxCapLimitsRequest_Unmarshal)
QueryVirtualStakingMaxCapLimitsResponse ==
    Type(QueryVirtualStakingMaxCapLimitsResponse_Marshal,
         QueryVirtualStakingMaxCapLimitsResponse_Size,
         QueryVirtualStakingMaxCapLimitsResponse_Unmarshal)
QueryParamsRequest ==
    Type(QueryParamsRequest_Marshal, QueryParamsRequest_Size,
         QueryParamsRequest_Unmarshal)
QueryParamsResponse ==
    Type(QueryParamsResponse_Marshal, QueryParamsResponse_Size,
         QueryParamsResponse_Unmarshal)

MessageTypes ==
    {MsgSetVirtualStakingMaxCap, MsgSetVirtualStakingMaxCapResponse,
     VirtualStakingMaxCapInfo, Params, GenesisState, ValidatorAddress,
     QueryVirtualStakingMaxCapLimitRequest,
     QueryVirtualStakingMaxCapLimitResponse,
     QueryVirtualStakingMaxCapLimitsRequest,
     QueryVirtualStakingMaxCapLimitsResponse,
     QueryParamsRequest, QueryParamsResponse}
=============================================================================
