SPECIFICATION TreeSpec
CONSTANTS
    Node <- MCNode
    KeyOf <- MCKeyOf
INVARIANTS BalancedAndLinked AnswersByOrder
PROPERTY ImplementsSortedQueue
