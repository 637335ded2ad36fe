--------------------------- MODULE MCAddonManager ---------------------------
(* Two addons, the first with two interceptors; the user has one or both.  *)
EXTENDS AddonManager

CONSTANTS a1, a2

MCNInterceptors == [a \in Addons |-> IF a = a1 THEN 2 ELSE 1]
MCLists == {<<a2>>, <<a1, a2>>}
MCOneList == {<<a1>>}
MCOneInterceptor == [a \in Addons |-> 1]
=============================================================================
