------------------------------ MODULE KlearApi ------------------------------
(***************************************************************************)
(* The methods of the clearing API (kalshi/perps/klear/resources).  Its     *)
(* transport signs nothing and no method asks for credentials: the bearer   *)
(* token is put on the request by the helpers that KlearSyncResource        *)
(* overrides.  Laid out as PredictionApi.                                   *)
(***************************************************************************)
EXTENDS ApiOps

(* Checks of the parameter and body builders. *)
ValidateDateRange == <<"check">>

ObligationOps == {
    Op("klear.margin.margin_reports", "get", <<"margin", "reports">>, ValidateDateRange),
    Op("klear.margin.active_obligations", "get", <<"margin", "active_obligations">>, <<>>),
    Op("klear.margin.obligation_history", "list", <<"margin", "obligation_history">>, <<"limit">>),
    Op("klear.margin.obligation_history_all", "list_all", <<"margin", "obligation_history">>,
        <<"pages", "limit">>),
    Op("klear.margin.settlement_details", "list",
        <<"margin", "obligations", Arg, "settlement_details">>, <<"limit", "seg">>),
    Op("klear.margin.settlement_details_all", "list_all",
        <<"margin", "obligations", Arg, "settlement_details">>, <<"pages", "limit", "seg">>),
    Op("klear.margin.maintenance_margin_details", "list",
        <<"margin", "obligations", Arg, "maintenance_margin_details">>, <<"limit", "seg">>)}

PaymentOps == {
    Op("klear.margin.maintenance_margin_details_all", "list_all",
        <<"margin", "obligations", Arg, "maintenance_margin_details">>, <<"pages", "limit", "seg">>),
    Op("klear.margin.funding_payments", "list", <<"margin", "obligations", Arg, "funding_payments">>,
        <<"limit", "seg">>),
    Op("klear.margin.funding_payments_all", "list_all",
        <<"margin", "obligations", Arg, "funding_payments">>, <<"pages", "limit", "seg">>),
    Op("klear.margin.corporate_action_payments", "list",
        <<"margin", "obligations", Arg, "corporate_action_payments">>, <<"limit", "seg">>),
    Op("klear.margin.corporate_action_payments_all", "list_all",
        <<"margin", "obligations", Arg, "corporate_action_payments">>, <<"pages", "limit", "seg">>),
    Op("klear.margin.settlement_estimate_by_asset_class", "get",
        <<"margin", "settlement_estimate_by_asset_class">>, <<>>),
    Op("klear.margin.settlement_balance", "get", <<"margin", "settlement_balance">>, <<>>),
    Op("klear.margin.guaranty_fund_balance", "get", <<"margin", "guaranty_fund_balance">>, <<>>)}

SettlementOps == {
    Op("klear.margin.settlement_balance_history", "list", <<"margin", "settlement_balance_history">>,
        <<"limit">>),
    Op("klear.margin.settlement_balance_history_all", "list_all",
        <<"margin", "settlement_balance_history">>, <<"pages", "limit">>),
    Op("klear.margin.withdraw_settlement_balance", "post",
        <<"margin", "settlement_balance_withdrawal">>, <<"check", "model">>),
    Op("klear.margin.settlement_balance_withdrawal", "get",
        <<"margin", "settlement_balance_withdrawal">>, <<>>),
    Op("klear.margin.settlement_prices", "get", <<"margin", "settlement_prices">>, <<>>),
    Op("klear.margin.estimate_maintenance_margin", "post", <<"margin", "estimate_maintenance_margin">>,
        <<"exclusive", "required", "model">>)}

MemberOps == {
    Op("klear.margin.member_funding_payments", "list", <<"margin", "funding_payments">>, <<"limit">>),
    Op("klear.margin.member_funding_payments_all", "list_all", <<"margin", "funding_payments">>,
        <<"pages", "limit">>),
    Op("klear.margin.list_fcm_api_keys", "get", <<"fcm", "margin", "api_keys">>, <<>>),
    Op("klear.margin.create_fcm_api_key", "post", <<"fcm", "margin", "api_keys">>,
        <<"exclusive", "required", "model">>),
    Op("klear.margin.generate_fcm_api_key", "post", <<"fcm", "margin", "api_keys", "generate">>,
        <<"exclusive", "required", "model">>),
    Act("klear.margin.delete_fcm_api_key", "delete", <<"fcm", "margin", "api_keys", Arg>>, <<"seg">>),
    Op("klear.margin.list_subtrader_groups", "get", <<"fcm", "margin", "subtrader_groups">>, <<>>)}

SubtraderOps == {
    Op("klear.margin.create_subtrader_group", "post", <<"fcm", "margin", "subtrader_groups">>,
        <<"exclusive", "required", "model">>),
    Act("klear.margin.update_subtrader_group", "put", <<"fcm", "margin", "subtrader_groups", Arg>>,
        <<"exclusive", "required", "model", "seg">>),
    Act("klear.margin.delete_subtrader_group", "delete", <<"fcm", "margin", "subtrader_groups", Arg>>,
        <<"seg">>),
    Op("klear.margin.estimate_maintenance_margin_metadata", "get",
        <<"margin", "estimate_maintenance_margin", "metadata">>, <<>>),
    Op("klear.margin.funding_estimate_by_asset_class", "get",
        <<"margin", "funding_estimate_by_asset_class">>, <<>>),
    Op("klear.margin.funding_schedule", "get", <<"margin", "funding_schedule">>, <<>>)}

AsyncObligationOps == Awaited(ObligationOps)
AsyncPaymentOps == Awaited(PaymentOps)
AsyncSettlementOps == Awaited(SettlementOps)
AsyncMemberOps == Awaited(MemberOps)
AsyncSubtraderOps == Awaited(SubtraderOps)

KlearOps == UNION {
    ObligationOps, PaymentOps, SettlementOps, MemberOps, SubtraderOps, AsyncObligationOps,
    AsyncPaymentOps, AsyncSettlementOps, AsyncMemberOps, AsyncSubtraderOps}

=============================================================================
