CONSTANTS
    None = None
    Vouchers <- MCVouchers
    Items <- MCItems
    GroupAccounts <- MCGroupAccounts
    Companies <- MCCompanies
SPECIFICATION Spec
CHECK_DEADLOCK FALSE
INVARIANTS
    StockReconciles
    SubledgersAgree
    BaseLedgerBalances
    CostsExact
    VoucherNetsOut
