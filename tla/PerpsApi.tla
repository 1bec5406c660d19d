------------------------------ MODULE PerpsApi ------------------------------
(***************************************************************************)
(* The methods of the perpetual-futures resources (kalshi/perps/resources). *)
(* Laid out as PredictionApi.                                               *)
(***************************************************************************)
EXTENDS ApiOps

(* Checks of the parameter and body builders. *)
BuildCreateSubtraderBody == <<"exclusive", "required", "model">>
BuildUpdateRiskControlsBody == <<"exclusive", "required", "model">>
BuildUpdateNotionalRiskLimitBody == <<"exclusive", "required", "model">>
BulkOrderbooksParams == <<"check", "tickers">>
SchedulesParams == <<"check", "tickers">>
BuildCreateOrderGroupBody == <<"exclusive", "required", "model">>
BuildUpdateLimitBody == <<"exclusive", "required", "model">>
BuildCreateBody == <<"exclusive", "required", "check", "model">>
BuildDecreaseBody == <<"exclusive", "check", "model">>
BuildAmendBody == <<"exclusive", "required", "check", "model">>
ListOrdersParams == <<"limit">>
ListFcmParams == <<"limit">>
MarginFillsParams == <<"limit">>
MarginTradesParams == <<"limit">>
BuildInstanceTransferBody == <<"exclusive", "required", "check", "model">>
BuildSubaccountTransferBody == <<"exclusive", "required", "check", "model">>

ExchangeOps == {
    Op("perps.exchange.status", "get", <<"margin", "exchange", "status">>, <<>>),
    Op("perps.exchange.enabled", "get", <<"margin", "enabled">>, <<"auth">>),
    Op("perps.exchange.risk_parameters", "get", <<"margin", "risk_parameters">>, <<>>)}

FcmOps == {
    Op("perps.fcm.create_subtrader", "post", <<"margin", "fcm", "subtraders">>,
        <<"auth">> \o BuildCreateSubtraderBody),
    Op("perps.fcm.risk_controls", "get", <<"margin", "fcm", "subtraders", "risk_controls">>,
        <<"auth">>),
    Act("perps.fcm.update_risk_controls", "put", <<"margin", "fcm", "subtraders", "risk_controls">>,
        <<"auth">> \o BuildUpdateRiskControlsBody),
    Act("perps.fcm.delete_risk_controls", "delete", <<"margin", "fcm", "subtraders", "risk_controls">>,
        <<"auth">>),
    Act("perps.fcm.update_notional_risk_limit", "put", <<"margin", "fcm", "notional_risk_limit">>,
        <<"auth">> \o BuildUpdateNotionalRiskLimitBody)}

FcmLimitOps == {
    Act("perps.fcm.delete_notional_risk_limit", "delete", <<"margin", "fcm", "notional_risk_limit">>,
        <<"auth">>)}

FundingOps == {
    Op("perps.funding.rate_estimate", "get", <<"margin", "funding_rates", "estimate">>, <<>>),
    Op("perps.funding.historical_rates", "get", <<"margin", "funding_rates", "historical">>, <<>>),
    Op("perps.funding.premium_index", "get", <<"margin", "funding_rates", "premium_index">>, <<>>),
    Op("perps.funding.history", "get", <<"margin", "funding_history">>, <<"auth">>)}

MarginAccountOps == {
    Op("perps.margin.balance", "get", <<"margin", "balance">>, <<"auth">>),
    Op("perps.margin.risk", "get", <<"margin", "risk">>, <<"auth">>),
    Op("perps.margin.notional_risk_limit", "get", <<"margin", "notional_risk_limit">>, <<"auth">>),
    Op("perps.margin.fee_tiers", "get", <<"margin", "fee_tiers">>, <<"auth">>),
    Op("perps.margin.fee_tier_rates", "get", <<"margin", "fee_tier_rates">>, <<"auth">>),
    Op("perps.margin.api_limits", "get", <<"account", "limits", "perps">>, <<"auth">>),
    Op("perps.margin.corporate_actions", "get", <<"margin", "corporate_actions">>, <<>>)}

MarketOps == {
    Op("perps.markets.list", "get", <<"margin", "markets">>, <<>>),
    Op("perps.markets.get", "get", <<"margin", "markets", Arg>>, <<"seg">>),
    Op("perps.markets.orderbook", "get", <<"margin", "markets", Arg, "orderbook">>, <<"seg">>),
    Op("perps.markets.bulk_orderbooks", "get", <<"margin", "markets", "orderbooks">>,
        BulkOrderbooksParams),
    Op("perps.markets.candlesticks", "get", <<"margin", "markets", Arg, "candlesticks">>, <<"seg">>),
    Op("perps.markets.schedules", "get", <<"margin", "markets", "schedules">>, SchedulesParams)}

OrderGroupOps == {
    Op("perps.order_groups.list", "get", <<"margin", "order_groups">>, <<"auth">>),
    Op("perps.order_groups.get", "get", <<"margin", "order_groups", Arg>>, <<"auth", "seg">>),
    Op("perps.order_groups.create", "post", <<"margin", "order_groups", "create">>,
        <<"auth">> \o BuildCreateOrderGroupBody),
    Act("perps.order_groups.delete", "delete", <<"margin", "order_groups", Arg>>, <<"auth", "seg">>),
    Act("perps.order_groups.reset", "put", <<"margin", "order_groups", Arg, "reset">>,
        <<"auth", "seg">>),
    Act("perps.order_groups.trigger", "put", <<"margin", "order_groups", Arg, "trigger">>,
        <<"auth", "seg">>)}

OrderGroupLimitOps == {
    Act("perps.order_groups.update_limit", "put", <<"margin", "order_groups", Arg, "limit">>,
        <<"auth">> \o BuildUpdateLimitBody \o <<"seg">>)}

OrderEntryOps == {
    Op("perps.orders.create", "post", <<"margin", "orders">>, <<"auth">> \o BuildCreateBody),
    Op("perps.orders.get", "get", <<"margin", "orders", Arg>>, <<"auth", "seg">>),
    Op("perps.orders.list", "get", <<"margin", "orders">>, <<"auth">> \o ListOrdersParams),
    Op("perps.orders.list_all", "list_all", <<"margin", "orders">>,
        <<"auth", "pages">> \o ListOrdersParams)}

OrderChangeOps == {
    Op("perps.orders.cancel", "delete", <<"margin", "orders", Arg>>, <<"auth", "seg">>),
    Act("perps.orders.cancel_all", "delete", <<"margin", "orders">>, <<"auth">>),
    Op("perps.orders.decrease", "post", <<"margin", "orders", Arg, "decrease">>,
        <<"auth">> \o BuildDecreaseBody \o <<"seg">>),
    Op("perps.orders.amend", "post", <<"margin", "orders", Arg, "amend">>,
        <<"auth">> \o BuildAmendBody \o <<"seg">>)}

FcmOrderOps == {
    Op("perps.orders.list_fcm", "get", <<"margin", "fcm", "orders">>, <<"auth">> \o ListFcmParams),
    Op("perps.orders.list_all_fcm", "list_all", <<"margin", "fcm", "orders">>,
        <<"auth", "pages">> \o ListFcmParams)}

PositionOps == {
    Op("perps.portfolio.positions", "get", <<"margin", "positions">>, <<"auth">>),
    Op("perps.portfolio.fills", "list", <<"margin", "fills">>, <<"auth">> \o MarginFillsParams),
    Op("perps.portfolio.fills_all", "list_all", <<"margin", "fills">>,
        <<"auth", "pages">> \o MarginFillsParams),
    Op("perps.portfolio.trades", "list", <<"margin", "trades">>, MarginTradesParams),
    Op("perps.portfolio.trades_all", "list_all", <<"margin", "trades">>,
        <<"pages">> \o MarginTradesParams),
    Op("perps.portfolio.cross_exit_triggers", "get",
        <<"margin", "cross", "positions", Arg, "exit_trigger">>, <<"auth", "seg">>)}

ExitTriggerOps == {
    Op("perps.portfolio.set_cross_exit_trigger", "put",
        <<"margin", "cross", "positions", Arg, "exit_trigger">>, <<"auth", "seg">>),
    Act("perps.portfolio.cancel_cross_exit_triggers", "delete",
        <<"margin", "cross", "positions", Arg, "exit_trigger">>, <<"auth", "seg">>),
    Op("perps.portfolio.update_cross_exit_trigger", "put",
        <<"margin", "cross", "positions", Arg, "exit_trigger", Arg>>, <<"auth", "seg", "seg">>),
    Act("perps.portfolio.cancel_cross_exit_trigger", "delete",
        <<"margin", "cross", "positions", Arg, "exit_trigger", Arg>>, <<"auth", "seg", "seg">>),
    Op("perps.portfolio.isolated_exit_triggers", "get",
        <<"margin", "isolated", "positions", Arg, "exit_trigger">>, <<"auth", "seg">>),
    Op("perps.portfolio.set_isolated_exit_trigger", "put",
        <<"margin", "isolated", "positions", Arg, "exit_trigger">>, <<"auth", "seg">>),
    Act("perps.portfolio.cancel_isolated_exit_triggers", "delete",
        <<"margin", "isolated", "positions", Arg, "exit_trigger">>, <<"auth", "seg">>)}

TransferOps == {
    Op("perps.transfers.transfer_instance", "post", <<"portfolio", "intra_exchange_instance_transfer">>,
        <<"auth">> \o BuildInstanceTransferBody),
    Op("perps.transfers.create_subaccount", "post", <<"portfolio", "margin", "subaccounts">>,
        <<"auth">>),
    Act("perps.transfers.transfer_subaccount", "post",
        <<"portfolio", "margin", "subaccounts", "transfer">>, <<"auth">> \o BuildSubaccountTransferBody)}

AsyncExchangeOps == Awaited(ExchangeOps)
AsyncFcmOps == Awaited(FcmOps)
AsyncFcmLimitOps == Awaited(FcmLimitOps)
AsyncFundingOps == Awaited(FundingOps)
AsyncMarginAccountOps == Awaited(MarginAccountOps)
AsyncMarketOps == Awaited(MarketOps)
AsyncOrderGroupOps == Awaited(OrderGroupOps)
AsyncOrderGroupLimitOps == Awaited(OrderGroupLimitOps)
AsyncOrderEntryOps == Awaited(OrderEntryOps)
AsyncOrderChangeOps == Awaited(OrderChangeOps)
AsyncFcmOrderOps == Awaited(FcmOrderOps)
AsyncPositionOps == Awaited(PositionOps)
AsyncExitTriggerOps == Awaited(ExitTriggerOps)
AsyncTransferOps == Awaited(TransferOps)

PerpsOps == UNION {
    ExchangeOps, FcmOps, FcmLimitOps, FundingOps, MarginAccountOps, MarketOps, OrderGroupOps,
    OrderGroupLimitOps, OrderEntryOps, OrderChangeOps, FcmOrderOps, PositionOps, ExitTriggerOps,
    TransferOps, AsyncExchangeOps, AsyncFcmOps, AsyncFcmLimitOps, AsyncFundingOps,
    AsyncMarginAccountOps, AsyncMarketOps, AsyncOrderGroupOps, AsyncOrderGroupLimitOps,
    AsyncOrderEntryOps, AsyncOrderChangeOps, AsyncFcmOrderOps, AsyncPositionOps,
    AsyncExitTriggerOps, AsyncTransferOps}

(* The reads the margin exchange serves without credentials (no "security"  *)
(* in specs/perps_openapi.yaml).                                            *)
Public(o) ==
    /\ VerbOf(o.helper) = "GET"
    /\ o.route[1] = "margin"
    /\ o.route[2] \in {"exchange", "markets", "funding_rates", "risk_parameters", "trades",
                       "corporate_actions"}

=============================================================================
