\* Up to two directories above the checkout.
CONSTANTS
    MaxAbove = 2
SPECIFICATION Spec
INVARIANT ProjectRootIsCheckout
