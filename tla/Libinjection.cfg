SPECIFICATION AnySpec
CONSTANTS
    sql_keywords <- FoldKeywords
    LIBINJECTION_SQLI_TOKEN_SIZE = 12
    Kinds <- FoldKinds
INVARIANTS
    HtmlTokensKeepText
    VerdictIsOfTokens
    SqlTokensAsWritten
    FoldFitsFingerprint
    SkippedPassesFindNothing
    GetsOn
PROPERTIES
    FoldEnds
CHECK_DEADLOCK FALSE
