--------------------------- MODULE SearchRequests ---------------------------
(***************************************************************************)
(* What the API makes of a search request: who may send it, the accounts   *)
(* an account operator is given when the request names none, and the flat  *)
(* list of filters that is left of its composite filters.                  *)
(***************************************************************************)
EXTENDS SearchFilters

CONSTANTS
  NoValue,         \* a filter whose value is missing or empty
  TypeNames,       \* spellings of resource types -> the value of resourceTypeNormalized
  RequestedFields  \* attributes a request may name

Groups == {"AdminGroup", "DelegatedAdminGroup", "AccountOperatorGroup"}

\* Filters as they are sent; only types have spellings.
StringFilter ==
  {f \in [field: RequestedFields, comparison: Comparisons,
          value: Values \cup DOMAIN TypeNames \cup {NoValue}, copy: Nat] :
     f.value \in DOMAIN TypeNames => f.field = "resourceType"}

\* The body of a request: single filters and composite ones.
Bodies == [strings: SUBSET StringFilter, composites: SUBSET SUBSET StringFilter]

\* A user: the groups of the token, and the accounts that are mapped to the email (none for
\* a user without a mapping).
RequestingUser == [groups: SUBSET Groups, accounts: SUBSET Values]

ASSUME RequestsAssumption ==
  /\ RequestedFields \subseteq Fields \cup {"resourceType"}
  /\ {"accountId", "resourceTypeNormalized"} \subseteq Fields
  /\ DOMAIN TypeNames \subseteq Nat \ Values
  /\ \A name \in DOMAIN TypeNames : TypeNames[name] \in Values
  /\ NoValue \in Nat \ (Values \cup DOMAIN TypeNames)

\* authenticateAndAuthorize: only account operators have authorized accounts.
AuthorizedAccounts(user) ==
  IF "AccountOperatorGroup" \in user.groups THEN user.accounts ELSE {}

\* extractAccountIdsFromRequest
AccountIdsOf(body) ==
  {f.value : f \in {g \in UNION body.composites : g.field = "accountId"}}

\* createAccessRules
MaySend(user, body) ==
  \/ user.groups \cap {"AdminGroup", "DelegatedAdminGroup"} # {}
  \/ /\ "AccountOperatorGroup" \in user.groups
     /\ AuthorizedAccounts(user) # {}
     /\ AccountIdsOf(body) \subseteq AuthorizedAccounts(user)

IsValidStringFilter(f) == f.value # NoValue

\* validateAndConvertStringFilter: types are stored in one spelling.
ConvertStringFilter(f) ==
  IF f.field = "resourceType"
  THEN [f EXCEPT !.field = "resourceTypeNormalized",
                 !.value = IF @ \in DOMAIN TypeNames THEN TypeNames[@] ELSE @]
  ELSE f

NamesAccount(filters) == \E f \in filters : f.field = "accountId" /\ IsValidStringFilter(f)

\* applyAccountFilteringForAccountOperators: one composite filter of the user's accounts,
\* unless the request has a filter on accounts.
ApplyAccountFiltering(user, body) ==
  IF AuthorizedAccounts(user) = {} \/ NamesAccount(body.strings \cup UNION body.composites)
  THEN body
  ELSE [body EXCEPT !.composites =
          @ \cup {{[field |-> "accountId", comparison |-> "EQUALS", value |-> a, copy |-> 0] :
                     a \in AuthorizedAccounts(user)}}]

\* processStringFilters
ProcessStringFilters(filters) ==
  {ConvertStringFilter(f) : f \in {g \in filters : IsValidStringFilter(g)}}

\* convertToSearchCriteria: the operators of composite filters are not kept.
ConvertToSearchCriteria(body) ==
  ProcessStringFilters(body.strings)
    \cup UNION {ProcessStringFilters(composite) : composite \in body.composites}

\* What a request asks for: rows for which, for every field it names, one of its filters
\* holds; and of the operator's own accounts, if it names none.
Requested(user, body, row) ==
  LET own == ProcessStringFilters(body.strings \cup UNION body.composites)
  IN  /\ Asked(own, row)
      /\ AuthorizedAccounts(user) = {} \/ (\E f \in own : f.field = "accountId")
           \/ row["accountId"] \in AuthorizedAccounts(user)
=============================================================================
