--------------------------- MODULE PredictionApi ---------------------------
(***************************************************************************)
(* The methods of the prediction-market resources (kalshi/resources),       *)
(* without communications: what each one checks before it sends, the helper *)
(* and the path it uses.  One definition per resource class, or per run of  *)
(* neighbouring methods of a long class; the second half names the async    *)
(* classes.  Operators named after a function of the source (FillsParams)   *)
(* are the checks of that parameter or body builder.                        *)
(***************************************************************************)
EXTENDS ApiOps

(* Checks of the parameter and body builders. *)
FillsParams == <<"limit">>
BuildCreateApiKeyBody == <<"exclusive", "required", "model">>
BuildGenerateApiKeyBody == <<"exclusive", "required", "model">>
ListEventsParams == <<"limit", "tickers">>
ListMultivariateEventsParams == <<"limit", "tickers">>
EventFeeChangesParams == <<"limit">>
JoinClientOrderIds == <<"check">>
FcmOrdersParams == JoinClientOrderIds \o <<"check", "limit">>
FcmPositionsParams == <<"limit">>
BuildCreatePositionTransferBody == <<"exclusive", "required", "model">>
BuildCreateFcmSubtraderBody == <<"exclusive", "required", "model">>
BuildUpdateBlockedCategoriesBody == <<"exclusive", "required", "model">>
BuildUpdateDailyCapBody == <<"exclusive", "required", "model">>
HistoricalMarketsParams == <<"limit", "tickers">>
HistoricalFillsOrOrdersParams == <<"limit">>
HistoricalTradesParams == <<"limit">>
HistoricalPositionsParams == <<"limit">>
ListMarketsParams == <<"limit", "tickers">>
ListTradesParams == <<"limit">>
BulkCandlesticksParams == <<"check", "tickers", "check">>
BulkOrderbooksParams == <<"check">>
ListMilestonesParams == <<"limit">>
ListCollectionsParams == <<"limit">>
BuildCreateMarketBody == <<"exclusive", "required", "model">>
BuildCreateOrderGroupBody == <<"exclusive", "required", "model">>
BuildUpdateLimitBody == <<"exclusive", "required", "model">>
ListOrdersParams == <<"limit", "tickers">>
QueuePositionsParams == <<"tickers">>
PositionsParams == <<"limit">>
SettlementsParams == <<"limit">>
ValidateIds == <<"check">>
BuildTransferBody == <<"exclusive", "required", "check", "model">>
BuildUpdateNettingBody == <<"exclusive", "required", "model">>

AccountOps == {
    Op("account.limits", "get", <<"account", "limits">>, <<"auth">>),
    Op("account.endpoint_costs", "get", <<"account", "endpoint_costs">>, <<"auth">>),
    Op("account.volume_progress", "get", <<"account", "api_usage_level", "volume_progress">>,
        <<"auth">>),
    Act("account.upgrade", "post", <<"account", "api_usage_level", "upgrade">>, <<"auth">>)}

ApiKeyOps == {
    Op("api_keys.list", "get", <<"api_keys">>, <<"auth">>),
    Op("api_keys.create", "post", <<"api_keys">>, <<"auth">> \o BuildCreateApiKeyBody),
    Op("api_keys.generate", "post", <<"api_keys", "generate">>, <<"auth">> \o BuildGenerateApiKeyBody),
    Act("api_keys.delete", "delete", <<"api_keys", Arg>>, <<"auth", "seg">>)}

EventOps == {
    Op("events.list", "list", <<"events">>, ListEventsParams),
    Op("events.list_all", "list_all", <<"events">>, <<"pages">> \o ListEventsParams),
    Op("events.list_multivariate", "list", <<"events", "multivariate">>, ListMultivariateEventsParams),
    Op("events.list_all_multivariate", "list_all", <<"events", "multivariate">>,
        <<"pages">> \o ListMultivariateEventsParams),
    Op("events.get", "get", <<"events", Arg>>, <<"seg">>),
    Op("events.metadata", "get", <<"events", Arg, "metadata">>, <<"seg">>)}

EventFeeOps == {
    Op("events.fee_changes", "list", <<"events", "fee_changes">>, EventFeeChangesParams),
    Op("events.fee_changes_all", "list_all", <<"events", "fee_changes">>,
        <<"pages">> \o EventFeeChangesParams)}

ExchangeOps == {
    Op("exchange.status", "get", <<"exchange", "status">>, <<>>),
    Op("exchange.schedule", "get", <<"exchange", "schedule">>, <<>>),
    Op("exchange.announcements", "get", <<"exchange", "announcements">>, <<>>),
    Op("exchange.user_data_timestamp", "get", <<"exchange", "user_data_timestamp">>, <<"auth">>)}

FcmOrderOps == {
    Op("fcm.orders", "list", <<"fcm", "orders">>, <<"auth">> \o FcmOrdersParams),
    Op("fcm.orders_all", "list_all", <<"fcm", "orders">>, <<"auth", "pages">> \o FcmOrdersParams),
    Op("fcm.fills", "get", <<"fcm", "fills">>, <<"auth">>),
    Op("fcm.fills_all", "list_all", <<"fcm", "fills">>, <<"auth", "pages">>),
    Op("fcm.positions", "get", <<"fcm", "positions">>, <<"auth">> \o FcmPositionsParams)}

FcmPositionOps == {
    Op("fcm.positions_all", "list_all", <<"fcm", "positions">>,
        <<"auth", "pages">> \o FcmPositionsParams),
    Op("fcm.create_position_transfer", "post", <<"fcm", "positions", "transfers">>,
        <<"auth">> \o BuildCreatePositionTransferBody),
    Op("fcm.list_subtraders", "get", <<"fcm", "subtraders">>, <<"auth">>),
    Op("fcm.create_subtrader", "post", <<"fcm", "subtraders">>,
        <<"auth">> \o BuildCreateFcmSubtraderBody),
    Op("fcm.blocked_categories", "get", <<"fcm", "subtraders", "blocked_categories">>, <<"auth">>)}

FcmLimitOps == {
    Op("fcm.update_blocked_categories", "put", <<"fcm", "subtraders", "blocked_categories">>,
        <<"auth">> \o BuildUpdateBlockedCategoriesBody),
    Op("fcm.event_contract_daily_cap", "get", <<"fcm", "subtraders", "event_contract_daily_cap">>,
        <<"auth">>),
    Act("fcm.update_event_contract_daily_cap", "put",
        <<"fcm", "subtraders", "event_contract_daily_cap">>, <<"auth">> \o BuildUpdateDailyCapBody),
    Act("fcm.delete_event_contract_daily_cap", "delete",
        <<"fcm", "subtraders", "event_contract_daily_cap">>, <<"auth">>)}

HistoricalMarketOps == {
    Op("historical.cutoff", "get", <<"historical", "cutoff">>, <<>>),
    Op("historical.markets", "list", <<"historical", "markets">>, HistoricalMarketsParams),
    Op("historical.markets_all", "list_all", <<"historical", "markets">>,
        <<"pages">> \o HistoricalMarketsParams),
    Op("historical.market", "get", <<"historical", "markets", Arg>>, <<"seg">>),
    Op("historical.candlesticks", "get", <<"historical", "markets", Arg, "candlesticks">>, <<"seg">>),
    Op("historical.fills", "list", <<"historical", "fills">>,
        <<"auth">> \o HistoricalFillsOrOrdersParams),
    Op("historical.fills_all", "list_all", <<"historical", "fills">>,
        <<"auth", "pages">> \o HistoricalFillsOrOrdersParams)}

HistoricalOrderOps == {
    Op("historical.orders", "list", <<"historical", "orders">>,
        <<"auth">> \o HistoricalFillsOrOrdersParams),
    Op("historical.orders_all", "list_all", <<"historical", "orders">>,
        <<"auth", "pages">> \o HistoricalFillsOrOrdersParams),
    Op("historical.trades", "list", <<"historical", "trades">>, HistoricalTradesParams),
    Op("historical.trades_all", "list_all", <<"historical", "trades">>,
        <<"pages">> \o HistoricalTradesParams),
    Op("historical.positions", "get", <<"historical", "positions">>,
        <<"auth">> \o HistoricalPositionsParams)}

HistoricalPositionOps == {
    Op("historical.positions_all", "list_all", <<"historical", "positions">>,
        <<"auth", "pages">> \o HistoricalPositionsParams)}

IncentiveOps == {
    Op("incentive_programs.list", "list", <<"incentive_programs">>, <<"limit">>),
    Op("incentive_programs.list_all", "list_all", <<"incentive_programs">>, <<"pages", "limit">>)}

LiveDataOps == {
    Op("live_data.get", "get", <<"live_data", "milestone", Arg>>, <<"seg">>),
    Op("live_data.get_event", "get", <<"live_data", "events", Arg>>, <<"seg">>),
    Op("live_data.get_typed", "get", <<"live_data", Arg, "milestone", Arg>>, <<"seg", "seg">>),
    Op("live_data.batch", "get", <<"live_data", "batch">>, <<"check">>),
    Op("live_data.game_stats", "get", <<"live_data", "milestone", Arg, "game_stats">>, <<"seg">>),
    Op("live_data.weather", "get", <<"live_data", "weather", Arg>>, <<"seg">>)}

CalibrationOps == {
    Op("live_data.weather_calibrations", "get", <<"live_data", "weather", Arg, "calibrations">>,
        <<"seg">>)}

MarketOps == {
    Op("markets.list", "list", <<"markets">>, ListMarketsParams),
    Op("markets.list_all", "list_all", <<"markets">>, <<"pages">> \o ListMarketsParams),
    Op("markets.get", "get", <<"markets", Arg>>, <<"seg">>),
    Op("markets.orderbook", "get", <<"markets", Arg, "orderbook">>, <<"auth", "seg">>),
    Op("markets.candlesticks", "get", <<"series", Arg, "markets", Arg, "candlesticks">>,
        <<"seg", "seg">>)}

MarketTradeOps == {
    Op("markets.list_trades", "list", <<"markets", "trades">>, ListTradesParams),
    Op("markets.list_all_trades", "list_all", <<"markets", "trades">>, <<"pages">> \o ListTradesParams),
    Op("markets.bulk_candlesticks", "get", <<"markets", "candlesticks">>, BulkCandlesticksParams),
    Op("markets.bulk_orderbooks", "get", <<"markets", "orderbooks">>,
        <<"auth">> \o BulkOrderbooksParams)}

MilestoneOps == {
    Op("milestones.list", "list", <<"milestones">>, ListMilestonesParams),
    Op("milestones.list_all", "list_all", <<"milestones">>, <<"pages">> \o ListMilestonesParams),
    Op("milestones.get", "get", <<"milestones", Arg>>, <<"seg">>)}

CollectionOps == {
    Op("multivariate_collections.list", "list", <<"multivariate_event_collections">>,
        ListCollectionsParams),
    Op("multivariate_collections.list_all", "list_all", <<"multivariate_event_collections">>,
        <<"pages">> \o ListCollectionsParams),
    Op("multivariate_collections.get", "get", <<"multivariate_event_collections", Arg>>, <<"seg">>),
    Op("multivariate_collections.create_market", "post", <<"multivariate_event_collections", Arg>>,
        <<"auth">> \o BuildCreateMarketBody \o <<"seg">>)}

OrderGroupOps == {
    Op("order_groups.list", "get", <<"portfolio", "order_groups">>, <<"auth">>),
    Op("order_groups.get", "get", <<"portfolio", "order_groups", Arg>>, <<"auth", "seg">>),
    Op("order_groups.create", "post", <<"portfolio", "order_groups", "create">>,
        <<"auth">> \o BuildCreateOrderGroupBody),
    Act("order_groups.delete", "delete", <<"portfolio", "order_groups", Arg>>, <<"auth", "seg">>),
    Act("order_groups.reset", "put", <<"portfolio", "order_groups", Arg, "reset">>, <<"auth", "seg">>),
    Act("order_groups.trigger", "put", <<"portfolio", "order_groups", Arg, "trigger">>,
        <<"auth", "seg">>),
    Act("order_groups.update_limit", "put", <<"portfolio", "order_groups", Arg, "limit">>,
        <<"auth">> \o BuildUpdateLimitBody \o <<"seg">>)}

OrderQueryOps == {
    Op("orders.get", "get", <<"portfolio", "orders", Arg>>, <<"auth", "seg">>),
    Op("orders.list", "list", <<"portfolio", "orders">>, <<"auth">> \o ListOrdersParams),
    Op("orders.list_all", "list_all", <<"portfolio", "orders">>,
        <<"auth", "pages">> \o ListOrdersParams),
    Op("orders.fills", "list", <<"portfolio", "fills">>, <<"auth">> \o FillsParams),
    Op("orders.fills_all", "list_all", <<"portfolio", "fills">>, <<"auth", "pages">> \o FillsParams)}

OrderEntryOps == {
    Op("orders.queue_positions", "get", <<"portfolio", "orders", "queue_positions">>,
        <<"auth">> \o QueuePositionsParams),
    Op("orders.queue_position", "get", <<"portfolio", "orders", Arg, "queue_position">>,
        <<"auth", "seg">>),
    Op("orders.create_v2", "post", <<"portfolio", "events", "orders">>, <<"auth">>),
    Op("orders.create_with_exit_trigger", "post",
        <<"portfolio", "events", "orders", "with_exit_trigger">>, <<"auth">>),
    Op("orders.cancel_v2", "delete", <<"portfolio", "events", "orders", Arg>>, <<"auth", "seg">>),
    Act("orders.cancel_all_v2", "delete", <<"portfolio", "events", "orders">>, <<"auth">>),
    Op("orders.amend_v2", "post", <<"portfolio", "events", "orders", Arg, "amend">>, <<"auth", "seg">>)}

OrderBatchOps == {
    Op("orders.decrease_v2", "post", <<"portfolio", "events", "orders", Arg, "decrease">>,
        <<"auth", "seg">>),
    Op("orders.batch_create_v2", "post_json", <<"portfolio", "events", "orders", "batched">>,
        <<"auth">>),
    Op("orders.batch_cancel_v2", "delete_with_body_json",
        <<"portfolio", "events", "orders", "batched">>, <<"auth">>)}

PositionOps == {
    Op("portfolio.balance", "get", <<"portfolio", "balance">>, <<"auth">>),
    Op("portfolio.positions", "get", <<"portfolio", "positions">>, <<"auth">> \o PositionsParams),
    Op("portfolio.positions_all", "list_all", <<"portfolio", "positions">>,
        <<"auth", "pages">> \o PositionsParams),
    Op("portfolio.settlements", "list", <<"portfolio", "settlements">>,
        <<"auth">> \o SettlementsParams),
    Op("portfolio.settlements_all", "list_all", <<"portfolio", "settlements">>,
        <<"auth", "pages">> \o SettlementsParams)}

CashOps == {
    Op("portfolio.fills", "list", <<"portfolio", "fills">>, <<"auth">> \o FillsParams),
    Op("portfolio.fills_all", "list_all", <<"portfolio", "fills">>, <<"auth", "pages">> \o FillsParams),
    Op("portfolio.total_resting_order_value", "get",
        <<"portfolio", "summary", "total_resting_order_value">>, <<"auth">>),
    Op("portfolio.deposits", "list", <<"portfolio", "deposits">>, <<"auth", "limit">>),
    Op("portfolio.deposits_all", "list_all", <<"portfolio", "deposits">>, <<"auth", "pages", "limit">>),
    Op("portfolio.withdrawals", "list", <<"portfolio", "withdrawals">>, <<"auth", "limit">>)}

TransferOps == {
    Op("portfolio.withdrawals_all", "list_all", <<"portfolio", "withdrawals">>,
        <<"auth", "pages", "limit">>),
    Op("portfolio.intra_exchange_transfers", "list",
        <<"portfolio", "intra_exchange_instance_transfers">>, <<"auth", "limit">>),
    Op("portfolio.intra_exchange_transfers_all", "list_all",
        <<"portfolio", "intra_exchange_instance_transfers">>, <<"auth", "pages", "limit">>),
    Op("portfolio.get_intra_exchange_transfer", "get",
        <<"portfolio", "intra_exchange_instance_transfers", Arg>>, <<"auth", "seg">>),
    Op("portfolio.target_balance_allocation", "get", <<"portfolio", "target_balance_allocation">>,
        <<"auth">>),
    Act("portfolio.set_target_balance_allocation", "post_void",
        <<"portfolio", "target_balance_allocation">>, <<"auth", "exclusive", "required", "model">>),
    Op("portfolio.exit_triggers", "get", <<"portfolio", "positions", Arg, "exit_trigger">>,
        <<"auth", "seg">>)}

ExitTriggerOps == {
    Op("portfolio.set_exit_trigger", "put", <<"portfolio", "positions", Arg, "exit_trigger">>,
        <<"auth", "seg">>),
    Act("portfolio.cancel_exit_trigger", "delete", <<"portfolio", "positions", Arg, "exit_trigger">>,
        <<"auth", "seg">>),
    Op("portfolio.credit_history", "list", <<"portfolio", "credit_history">>, <<"auth", "limit">>),
    Op("portfolio.credit_history_all", "list_all", <<"portfolio", "credit_history">>,
        <<"auth", "pages", "limit">>)}

SearchOps == {
    Op("search.tags_by_categories", "get", <<"search", "tags_by_categories">>, <<>>),
    Op("search.filters_by_sport", "get", <<"search", "filters_by_sport">>, <<>>)}

SeriesOps == {
    Op("series.list", "get", <<"series">>, <<>>),
    Op("series.get", "get", <<"series", Arg>>, <<"seg">>),
    Op("series.fee_changes", "get", <<"series", "fee_changes">>, <<>>),
    Op("series.event_candlesticks", "get", <<"series", Arg, "events", Arg, "candlesticks">>,
        <<"seg", "seg">>),
    Op("series.forecast_percentile_history", "get",
        <<"series", Arg, "events", Arg, "forecast_percentile_history">>, <<"auth", "seg", "seg">>)}

TargetOps == {
    Op("structured_targets.list", "list", <<"structured_targets">>, ValidateIds \o <<"limit">>),
    Op("structured_targets.list_all", "list_all", <<"structured_targets">>,
        <<"pages">> \o ValidateIds \o <<"limit">>),
    Op("structured_targets.get", "get", <<"structured_targets", Arg>>, <<"seg">>)}

SubaccountOps == {
    Op("subaccounts.create", "post", <<"portfolio", "subaccounts">>, <<"auth", "model">>),
    Act("subaccounts.transfer", "post", <<"portfolio", "subaccounts", "transfer">>,
        <<"auth">> \o BuildTransferBody),
    Op("subaccounts.list_balances", "get", <<"portfolio", "subaccounts", "balances">>, <<"auth">>),
    Op("subaccounts.list_transfers", "list", <<"portfolio", "subaccounts", "transfers">>,
        <<"auth", "limit">>),
    Op("subaccounts.list_all_transfers", "list_all", <<"portfolio", "subaccounts", "transfers">>,
        <<"auth", "pages", "limit">>),
    Act("subaccounts.update_netting", "put", <<"portfolio", "subaccounts", "netting">>,
        <<"auth">> \o BuildUpdateNettingBody),
    Op("subaccounts.get_netting", "get", <<"portfolio", "subaccounts", "netting">>, <<"auth">>)}

(* MarketsResource.list_trades_all is the deprecated name of list_all_trades. *)
DeprecatedTrades ==
    Forwarded("markets.list_trades_all", "markets.list_all_trades", MarketTradeOps)

AsyncAccountOps == Awaited(AccountOps)
AsyncApiKeyOps == Awaited(ApiKeyOps)
AsyncEventOps == Awaited(EventOps)
AsyncEventFeeOps == Awaited(EventFeeOps)
AsyncExchangeOps == Awaited(ExchangeOps)
AsyncFcmOrderOps == Awaited(FcmOrderOps)
AsyncFcmPositionOps == Awaited(FcmPositionOps)
AsyncFcmLimitOps == Awaited(FcmLimitOps)
AsyncHistoricalMarketOps == Awaited(HistoricalMarketOps)
AsyncHistoricalOrderOps == Awaited(HistoricalOrderOps)
AsyncHistoricalPositionOps == Awaited(HistoricalPositionOps)
AsyncIncentiveOps == Awaited(IncentiveOps)
AsyncLiveDataOps == Awaited(LiveDataOps)
AsyncCalibrationOps == Awaited(CalibrationOps)
AsyncMarketOps == Awaited(MarketOps)
AsyncMarketTradeOps == Awaited(MarketTradeOps)
AsyncMilestoneOps == Awaited(MilestoneOps)
AsyncCollectionOps == Awaited(CollectionOps)
AsyncOrderGroupOps == Awaited(OrderGroupOps)
AsyncOrderQueryOps == Awaited(OrderQueryOps)
AsyncOrderEntryOps == Awaited(OrderEntryOps)
AsyncOrderBatchOps == Awaited(OrderBatchOps)
AsyncPositionOps == Awaited(PositionOps)
AsyncCashOps == Awaited(CashOps)
AsyncTransferOps == Awaited(TransferOps)
AsyncExitTriggerOps == Awaited(ExitTriggerOps)
AsyncSearchOps == Awaited(SearchOps)
AsyncSeriesOps == Awaited(SeriesOps)
AsyncTargetOps == Awaited(TargetOps)
AsyncSubaccountOps == Awaited(SubaccountOps)
AsyncDeprecatedTrades == Awaited(DeprecatedTrades)

PredictionOps == UNION {
    AccountOps, ApiKeyOps, EventOps, EventFeeOps, ExchangeOps, FcmOrderOps, FcmPositionOps,
    FcmLimitOps, HistoricalMarketOps, HistoricalOrderOps, HistoricalPositionOps, IncentiveOps,
    LiveDataOps, CalibrationOps, MarketOps, MarketTradeOps, MilestoneOps, CollectionOps,
    OrderGroupOps, OrderQueryOps, OrderEntryOps, OrderBatchOps, PositionOps, CashOps,
    TransferOps, ExitTriggerOps, SearchOps, SeriesOps, TargetOps, SubaccountOps,
    DeprecatedTrades, AsyncAccountOps, AsyncApiKeyOps, AsyncEventOps, AsyncEventFeeOps,
    AsyncExchangeOps, AsyncFcmOrderOps, AsyncFcmPositionOps, AsyncFcmLimitOps,
    AsyncHistoricalMarketOps, AsyncHistoricalOrderOps, AsyncHistoricalPositionOps,
    AsyncIncentiveOps, AsyncLiveDataOps, AsyncCalibrationOps, AsyncMarketOps,
    AsyncMarketTradeOps, AsyncMilestoneOps, AsyncCollectionOps, AsyncOrderGroupOps,
    AsyncOrderQueryOps, AsyncOrderEntryOps, AsyncOrderBatchOps, AsyncPositionOps, AsyncCashOps,
    AsyncTransferOps, AsyncExitTriggerOps, AsyncSearchOps, AsyncSeriesOps, AsyncTargetOps,
    AsyncSubaccountOps, AsyncDeprecatedTrades}

(* The reads the exchange serves without credentials (no "security" in      *)
(* specs/openapi.yaml).                                                     *)
Public(o) ==
    /\ VerbOf(o.helper) = "GET"
    /\ \/ /\ o.route[1] \in {"exchange", "events", "markets", "series", "milestones", "live_data",
                             "search", "structured_targets", "multivariate_event_collections",
                             "incentive_programs"}
          /\ Last(o.route) # "forecast_percentile_history"
       \/ o.route[1] = "historical" /\ o.route[2] \in {"cutoff", "markets", "trades"}

=============================================================================
