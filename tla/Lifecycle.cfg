\* Two goals, so that the events of either come between those of the other.
SPECIFICATION Spec
CONSTANTS
    Goals = {g1, g2}
INVARIANTS
    ReplacedAtMostOnce
    NeverTwoOrders
    OneOrderStands
PROPERTIES
    WritesEndForGood
CHECK_DEADLOCK FALSE
