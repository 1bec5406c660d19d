------------------------- MODULE CommunicationsApi -------------------------
(***************************************************************************)
(* The methods of kalshi/resources/communications.py: requests for quote,   *)
(* quotes, block trades, RFQ batches, and the deprecated flat methods that  *)
(* forward to them.  Laid out as PredictionApi.                             *)
(***************************************************************************)
EXTENDS ApiOps

(* Checks of the parameter and body builders. *)
RequireQuoteFilter == <<"check">>
ListRfqsParams == <<"limit">>
ListQuotesParams == <<"limit">>
BuildCreateRfqBody == <<"exclusive", "required", "model">>
BuildCreateQuoteBody == <<"exclusive", "required", "model">>
BuildAcceptQuoteBody == <<"exclusive", "required", "model">>
ListBlockTradeProposalsParams == <<"limit">>
BuildProposeBlockTradeBody == <<"exclusive", "required", "model">>
BuildAcceptBlockTradeProposalBody == <<"exclusive", "model">>
ListRfqBatchesParams == <<"limit">>
BuildCreateRfqBatchBody == <<"exclusive", "required", "model">>
BuildCreateRfqBatchQuoteBody == <<"exclusive", "required", "model">>
BuildAcceptRfqBatchBody == <<"exclusive", "required", "model">>

RfqOps == {
    Op("rfqs.list", "list", <<"communications", "rfqs">>, <<"auth">> \o ListRfqsParams),
    Op("rfqs.list_all", "list_all", <<"communications", "rfqs">>,
        <<"auth", "pages">> \o ListRfqsParams),
    Op("rfqs.get", "get", <<"communications", "rfqs", Arg>>, <<"auth", "seg">>),
    Op("rfqs.create", "post", <<"communications", "rfqs">>, <<"auth">> \o BuildCreateRfqBody),
    Act("rfqs.delete", "delete", <<"communications", "rfqs", Arg>>, <<"auth", "seg">>)}

QuoteOps == {
    Op("quotes.list", "list", <<"communications", "quotes">>,
        <<"auth">> \o RequireQuoteFilter \o ListQuotesParams),
    Op("quotes.list_all", "list_all", <<"communications", "quotes">>,
        <<"auth">> \o RequireQuoteFilter \o <<"pages">> \o ListQuotesParams),
    Op("quotes.get", "get", <<"communications", "quotes", Arg>>, <<"auth", "seg">>),
    Op("quotes.create", "post", <<"communications", "quotes">>, <<"auth">> \o BuildCreateQuoteBody),
    Act("quotes.delete", "delete", <<"communications", "quotes", Arg>>, <<"auth", "seg">>)}

QuoteAnswerOps == {
    Act("quotes.accept", "put", <<"communications", "quotes", Arg, "accept">>,
        <<"auth">> \o BuildAcceptQuoteBody \o <<"seg">>),
    Act("quotes.confirm", "put", <<"communications", "quotes", Arg, "confirm">>, <<"auth", "seg">>),
    Op("quotes.get_for_rfq", "get", <<"communications", "rfqs", Arg, "quotes", Arg>>,
        <<"auth", "seg", "seg">>),
    Act("quotes.delete_for_rfq", "delete", <<"communications", "rfqs", Arg, "quotes", Arg>>,
        <<"auth", "seg", "seg">>),
    Act("quotes.accept_for_rfq", "put", <<"communications", "rfqs", Arg, "quotes", Arg, "accept">>,
        <<"auth">> \o BuildAcceptQuoteBody \o <<"seg", "seg">>),
    Act("quotes.confirm_for_rfq", "put", <<"communications", "rfqs", Arg, "quotes", Arg, "confirm">>,
        <<"auth", "seg", "seg">>)}

BlockTradeOps == {
    Op("block_trade_proposals.list", "list", <<"communications", "block-trade-proposals">>,
        <<"auth">> \o ListBlockTradeProposalsParams),
    Op("block_trade_proposals.list_all", "list_all", <<"communications", "block-trade-proposals">>,
        <<"auth", "pages">> \o ListBlockTradeProposalsParams),
    Op("block_trade_proposals.create", "post", <<"communications", "block-trade-proposals">>,
        <<"auth">> \o BuildProposeBlockTradeBody),
    Act("block_trade_proposals.accept", "post_void",
        <<"communications", "block-trade-proposals", Arg, "accept">>,
        <<"auth">> \o BuildAcceptBlockTradeProposalBody \o <<"seg">>)}

BlockTradeEndOps == {
    Act("block_trade_proposals.cancel", "delete", <<"communications", "block-trade-proposals", Arg>>,
        <<"auth", "seg">>),
    Act("block_trade_proposals.reject", "post_void",
        <<"communications", "block-trade-proposals", Arg, "reject">>, <<"auth", "seg">>)}

BatchQuoteOps == {
    Op("rfq_batches.quotes.list", "get", <<"communications", "rfq_batches", Arg, "quotes">>,
        <<"auth", "seg">>),
    Op("rfq_batches.quotes.create", "post", <<"communications", "rfq_batches", Arg, "quotes">>,
        <<"auth">> \o BuildCreateRfqBatchQuoteBody \o <<"seg">>),
    Act("rfq_batches.quotes.delete", "delete", <<"communications", "rfq_batches", Arg, "quotes", Arg>>,
        <<"auth", "seg", "seg">>),
    Act("rfq_batches.quotes.confirm", "put",
        <<"communications", "rfq_batches", Arg, "quotes", Arg, "confirm">>, <<"auth", "seg", "seg">>)}

RfqBatchOps == {
    Op("rfq_batches.list", "list", <<"communications", "rfq_batches">>,
        <<"auth">> \o ListRfqBatchesParams),
    Op("rfq_batches.list_all", "list_all", <<"communications", "rfq_batches">>,
        <<"auth", "pages">> \o ListRfqBatchesParams),
    Op("rfq_batches.get", "get", <<"communications", "rfq_batches", Arg>>, <<"auth", "seg">>),
    Op("rfq_batches.create", "post", <<"communications", "rfq_batches">>,
        <<"auth">> \o BuildCreateRfqBatchBody),
    Act("rfq_batches.delete", "delete", <<"communications", "rfq_batches", Arg>>, <<"auth", "seg">>)}

RfqBatchAnswerOps == {
    Op("rfq_batches.accept", "put", <<"communications", "rfq_batches", Arg, "accept">>,
        <<"auth">> \o BuildAcceptRfqBatchBody \o <<"seg">>),
    Op("rfq_batches.best_quotes", "get", <<"communications", "rfq_batches", Arg, "best_quotes">>,
        <<"auth", "seg">>)}

(* CommunicationsResource: get_id, and the flat methods that forward.       *)
RfqForwarders ==
    {Op("communications.get_id", "get", <<"communications", "id">>, <<"auth">>)}
    \cup Forwarded("communications.list_rfqs", "rfqs.list", RfqOps)
    \cup Forwarded("communications.list_all_rfqs", "rfqs.list_all", RfqOps)
    \cup Forwarded("communications.get_rfq", "rfqs.get", RfqOps)
    \cup Forwarded("communications.create_rfq", "rfqs.create", RfqOps)
    \cup Forwarded("communications.delete_rfq", "rfqs.delete", RfqOps)
    \cup Forwarded("communications.list_quotes", "quotes.list", QuoteOps)

QuoteForwarders ==
    Forwarded("communications.list_all_quotes", "quotes.list_all", QuoteOps)
    \cup Forwarded("communications.get_quote", "quotes.get", QuoteOps)
    \cup Forwarded("communications.create_quote", "quotes.create", QuoteOps)
    \cup Forwarded("communications.delete_quote", "quotes.delete", QuoteOps)
    \cup Forwarded("communications.accept_quote", "quotes.accept", QuoteAnswerOps)
    \cup Forwarded("communications.confirm_quote", "quotes.confirm", QuoteAnswerOps)

AsyncRfqOps == Awaited(RfqOps)
AsyncQuoteOps == Awaited(QuoteOps)
AsyncQuoteAnswerOps == Awaited(QuoteAnswerOps)
AsyncBlockTradeOps == Awaited(BlockTradeOps)
AsyncBlockTradeEndOps == Awaited(BlockTradeEndOps)
AsyncBatchQuoteOps == Awaited(BatchQuoteOps)
AsyncRfqBatchOps == Awaited(RfqBatchOps)
AsyncRfqBatchAnswerOps == Awaited(RfqBatchAnswerOps)
AsyncRfqForwarders == Awaited(RfqForwarders)
AsyncQuoteForwarders == Awaited(QuoteForwarders)

CommunicationsOps == UNION {
    RfqOps, QuoteOps, QuoteAnswerOps, BlockTradeOps, BlockTradeEndOps, BatchQuoteOps,
    RfqBatchOps, RfqBatchAnswerOps, RfqForwarders, QuoteForwarders, AsyncRfqOps, AsyncQuoteOps,
    AsyncQuoteAnswerOps, AsyncBlockTradeOps, AsyncBlockTradeEndOps, AsyncBatchQuoteOps,
    AsyncRfqBatchOps, AsyncRfqBatchAnswerOps, AsyncRfqForwarders, AsyncQuoteForwarders}

=============================================================================
